---- MODULE Spec2Model ----
(***************************************************************************)
(* Conversation session lifecycle of the Chack gateway: the Telegram and   *)
(* Discord adapters, the per-chat executor registry, the short-term memory *)
(* window with its compaction, the long-term memory record and the         *)
(* minimum-tool-usage retry loop.                                          *)
(*                                                                         *)
(* Texts produced by the language model (running summary, long-term        *)
(* record) are modelled by the set of messages they were produced from;    *)
(* the empty set is the empty text.                                        *)
(***************************************************************************)
EXTENDS Integers, Sequences, FiniteSets, TLC

(* ------------------------------ bounds --------------------------------- *)
NumChats == 2
MaxUpdates == 2
MaxActive == 2
MaxBurst == 3
MaxSessions == 3
MaxTime == 3
MaxLimit == 2
MaxSteps == 0
MaxTools == 1
MaxReset == 1

(* -------------------------- program constants -------------------------- *)
max_attempts == 20

Chats == 1..NumChats
Users == 1..2
Uids == 1..MaxBurst
SessionIds == 1..MaxSessions

(* A message of a window: the update it belongs to and its role.           *)
Msg == [u : Uids, role : {"user", "assistant"}]

VARIABLES config, executors, last_bot_reply_at, sessions, nSessions,
          longterm, handlers, outbox, now, nUpdates, lastUpdate, typing,
          args, returned

(* The state of a bot, and the arguments and the returned value of a call  *)
(* of one of the module-level functions the bot uses.                      *)
bot == <<config, executors, last_bot_reply_at, sessions, nSessions,
         longterm, handlers, outbox, now, nUpdates, lastUpdate, typing>>
vars == <<bot, args, returned>>

(* ------------------------------ records -------------------------------- *)
NoSession == [kind |-> "none", chat |-> 0, trigger |-> 0, target |-> 0,
              messages |-> <<>>, summary |-> {}, prompt |-> {}]

NoResult == [output |-> FALSE, steps |-> 0, usage |-> 0]

(* The handler of update uid is handlers[uid].                             *)
NoHandler == [op |-> "none", chat |-> 0, pc |-> "idle",
              executor |-> 0, attempt |-> 0, result |-> NoResult,
              conversation |-> <<>>, previous |-> {},
              pruned |-> <<>>, summary_arg |-> {},
              text |-> "none", input |-> <<>>, cb |-> 0]

NoCall == [fn |-> "none"]
NoUpdate == [op |-> "none", chat |-> 0, user |-> 0, text |-> "none"]

NoReply == [kind |-> "none", cause |-> "none", uid |-> 0,
            output |-> FALSE, tools |-> 0, tokens |-> 0, text |-> <<>>,
            fragments |-> 0, sent |-> 0]

SeqToSet(s) == {s[i] : i \in 1..Len(s)}

(* ------------------------- chats, users, texts ------------------------- *)
(* chat.type: odd chat ids are private chats, even ones are groups.        *)
ChatTypeOf(chat) == IF chat % 2 = 1 THEN "private" ELSE "group"
(* user.username: user 1 has a username, user 2 has none.                  *)
UsernameOf(user) == IF user = 1 THEN "Alice" ELSE ""
TitleOf(chat) == IF chat = 2 THEN "ops" ELSE ""
(* message texts: whitespace only, plain, and one holding the trigger word *)
Texts == {" ", "hello", "chack hello"}
Strip(text) == IF text = " " THEN "" ELSE text
(* str.lower on the strings of the model *)
Lower(s) == IF s = "Alice" THEN "alice" ELSE s

(* A regex of the configuration: whether it compiles and, when it does,    *)
(* the strings pattern.search finds a match in.                            *)
Pattern(valid, matches) == [valid |-> valid, matches |-> matches]

(* TelegramBot._compile_patterns: patterns that fail to compile are skipped *)
_compile_patterns(patterns) == {p \in patterns : p.valid}

(* TelegramBot._matches_any *)
_matches_any(patterns, text) ==
  IF patterns = {} THEN TRUE ELSE \E p \in patterns : text \in p.matches

(* TelegramBot._user_allowed *)
_user_allowed(tg, user_id, username) ==
  LET dm_user_allow == tg.dm_allowlist_ids
      dm_username_allow == {Lower(u) : u \in tg.dm_allowlist_usernames}
      dm_username_allow_regex == _compile_patterns(tg.dm_allowlist_usernames_regex)
  IN IF dm_user_allow = {} /\ dm_username_allow = {} /\ dm_username_allow_regex = {}
       THEN TRUE
     ELSE IF user_id \in dm_user_allow THEN TRUE
     ELSE IF username # ""
       THEN \/ Lower(username) \in dm_username_allow
            \/ \E p \in dm_username_allow_regex : Lower(username) \in p.matches
     ELSE FALSE

(* TelegramBot._group_allowed *)
_group_allowed(tg, chat_id, title) ==
  LET group_title_allow == _compile_patterns(tg.group_allowlist_title_regex)
  IN IF tg.group_allowlist_ids = {} /\ group_title_allow = {} THEN TRUE
     ELSE IF chat_id \in tg.group_allowlist_ids THEN TRUE
     ELSE IF title # "" THEN \E p \in group_title_allow : title \in p.matches
     ELSE FALSE

(* TelegramBot._chat_allowed *)
_chat_allowed(tg, u) ==
  IF ChatTypeOf(u.chat) = "private"
    THEN IF ~tg.allow_dms THEN FALSE
         ELSE _user_allowed(tg, u.user, UsernameOf(u.user))
  ELSE IF ChatTypeOf(u.chat) = "group"
    THEN IF ~tg.allow_groups THEN FALSE
         ELSE _group_allowed(tg, u.chat, TitleOf(u.chat))
  ELSE FALSE

(* TelegramBot._message_allowed *)
_message_allowed(tg, u) ==
  IF ChatTypeOf(u.chat) = "private"
    THEN IF ~tg.allow_dms THEN FALSE
         ELSE IF ~_user_allowed(tg, u.user, UsernameOf(u.user)) THEN FALSE
         ELSE _matches_any(_compile_patterns(tg.dm_require_regex), u.text)
  ELSE IF ChatTypeOf(u.chat) = "group"
    THEN IF ~tg.allow_groups THEN FALSE
         ELSE IF ~_group_allowed(tg, u.chat, TitleOf(u.chat)) THEN FALSE
         ELSE _matches_any(_compile_patterns(tg.group_require_regex), u.text)
  ELSE FALSE

(* DiscordBot.on_message: the channel allow-list and the trigger words     *)
(* (a trigger word is modelled by the texts that contain it).              *)
discord_allowed(dc, u) ==
  /\ u.chat \in dc.channel_ids
  /\ \E trigger \in dc.trigger_words : u.text \in trigger

(* ----------------------------- memory window --------------------------- *)
(* Python slices t[:-n] and t[-n:] for n >= 1 *)
DropLast(t, n) == IF n >= Len(t) THEN <<>> ELSE SubSeq(t, 1, Len(t) - n)
TakeLast(t, n) == IF n >= Len(t) THEN t ELSE SubSeq(t, Len(t) - n + 1, Len(t))

(* memory.build_memory: trigger_limit and target_limit of the window;      *)
(* reset_to_messages = 0 stands for None (both take the same branch).      *)
build_memory(max_messages_arg, reset_to_messages_arg) ==
  LET max_messages == IF max_messages_arg < 1 THEN 1 ELSE max_messages_arg
      reset1 == IF reset_to_messages_arg < 1 THEN max_messages ELSE reset_to_messages_arg
      reset_to_messages == IF reset1 > max_messages THEN max_messages ELSE reset1
  IN [NoSession EXCEPT !.kind = "langchain", !.trigger = max_messages,
                       !.target = reset_to_messages]

(* openai_agents_backend.build_executor: _memory_limit and _memory_reset_to *)
build_executor(memory_max_messages, memory_reset_to_messages) ==
  LET max_messages == IF memory_max_messages < 1 THEN 1 ELSE memory_max_messages
      reset_to == IF memory_reset_to_messages < 1 \/ memory_reset_to_messages > max_messages
                    THEN max_messages ELSE memory_reset_to_messages
  IN [NoSession EXCEPT !.kind = "agents", !.trigger = max_messages,
                       !.target = reset_to]

(* _SafeSummaryBufferMemory.prune: the pop loop; the result is the buffer  *)
(* left and pruned_memory.                                                 *)
RECURSIVE prune_loop(_, _, _)
prune_loop(buffer, pruned_memory, target_limit) ==
  IF Len(buffer) > target_limit /\ buffer # <<>>
    THEN prune_loop(Tail(buffer), Append(pruned_memory, Head(buffer)), target_limit)
    ELSE [messages |-> buffer, pruned |-> pruned_memory]

(* prune that pops from the end of the buffer: it drops the newest messages *)
prune_drops_newest(buffer, trigger_limit, target_limit) ==
  IF Len(buffer) > trigger_limit
    THEN [messages |-> SubSeq(buffer, 1, target_limit),
          pruned |-> SubSeq(buffer, target_limit + 1, Len(buffer))]
    ELSE [messages |-> buffer, pruned |-> <<>>]

(* _SafeSummaryBufferMemory.prune / aprune, lines 20-27 *)
prune(buffer, trigger_limit, target_limit) ==
  IF Len(buffer) > trigger_limit
    THEN prune_loop(buffer, <<>>, target_limit)
    ELSE [messages |-> buffer, pruned |-> <<>>]

(* agents_compact with the slice off by one: keeps reset_to + 1 messages    *)
agents_compact_keeps_one_more(transcript, memory_limit, memory_reset_to) ==
  IF memory_limit # 0 /\ Len(transcript) > memory_limit
    THEN LET r0 == IF memory_reset_to # 0 THEN memory_reset_to ELSE memory_limit
             r1 == IF r0 > memory_limit THEN memory_limit ELSE r0
             reset_to == IF r1 < 1 THEN 1 ELSE r1
         IN [messages |-> TakeLast(transcript, reset_to + 1),
             pruned |-> DropLast(transcript, reset_to + 1)]
    ELSE [messages |-> transcript, pruned |-> <<>>]

(* AgentsExecutor.invoke, lines 54-62: the truncation of the transcript    *)
agents_compact(transcript, memory_limit, memory_reset_to) ==
  IF memory_limit # 0 /\ Len(transcript) > memory_limit
    THEN LET r0 == IF memory_reset_to # 0 THEN memory_reset_to ELSE memory_limit
             r1 == IF r0 > memory_limit THEN memory_limit ELSE r0
             reset_to == IF r1 < 1 THEN 1 ELSE r1
         IN [messages |-> TakeLast(transcript, reset_to),
             pruned |-> DropLast(transcript, reset_to)]
    ELSE [messages |-> transcript, pruned |-> <<>>]

(* the summarizer called with nothing removed *)
calls_summarizer_always(r) == TRUE

(* prune line 28, "if pruned_memory:", and invoke line 62, "if removed:"   *)

calls_summarizer(r) == r.pruned # <<>>

(* What one invocation appends to the window.  langchain's save_context    *)
(* appends the human and the AI message; AgentsExecutor.invoke appends the *)
(* user message and, when the output is not empty, the assistant message.  *)
UserMsg(uid) == [u |-> uid, role |-> "user"]
AssistantMsg(uid) == [u |-> uid, role |-> "assistant"]

appended(kind, uid, output) ==
  IF kind = "langchain" \/ output
    THEN <<UserMsg(uid), AssistantMsg(uid)>>
    ELSE <<UserMsg(uid)>>

(* The window after one invocation's bookkeeping *)
save_context(session, uid, output) ==
  LET buffer == session.messages \o appended(session.kind, uid, output)
  IN IF session.kind = "langchain"
       THEN prune(buffer, session.trigger, session.target)
       ELSE agents_compact(buffer, session.trigger, session.target)

(* ------------------------------- world --------------------------------- *)
(* The mutable program state as one record, so that a handler that runs    *)
(* several methods without yielding is one action.                         *)
World == [executors |-> executors, last |-> last_bot_reply_at,
          sessions |-> sessions, nSessions |-> nSessions,
          longterm |-> longterm, handlers |-> handlers, outbox |-> NoReply,
          typing |-> typing, ok |-> TRUE]

(* A session object no chat and no running handler refers to is collected. *)
Referenced(w, id) ==
  \/ \E c \in Chats : w.executors[c] = id
  \/ \E h \in Uids : w.handlers[h].executor = id

Commit(w) ==
  /\ w.ok
  /\ executors' = w.executors
  /\ last_bot_reply_at' = w.last
  /\ sessions' = [id \in SessionIds |->
                    IF Referenced(w, id) THEN w.sessions[id] ELSE NoSession]
  /\ nSessions' = w.nSessions
  /\ longterm' = w.longterm
  /\ handlers' = w.handlers
  /\ outbox' = w.outbox
  /\ typing' = w.typing

(* An outbound message: the answer of a turn with the figures of its       *)
(* suffix, the generic apology (cause is the exception behind it, which    *)
(* the user does not see) or the confirmation of a reset.                  *)
Apology == "Sorry, I ran into an error while processing that."
(* The text of the exception _run_agent raises when the retry loop ends    *)
(* without a sufficient attempt: its wording and the number it embeds.     *)
MinimumToolUsageNotMet(min_tools_used) ==
  <<"Minimum tool usage requirement not met", ToString(min_tools_used)>>
(* The parts the text of an outbound message is made of: the agent output  *)
(* followed by the figures suffix, or a fixed sentence.                    *)
ReplyText(kind) ==
  IF kind = "answer" THEN <<"output", "suffix">>
  ELSE IF kind = "error" THEN <<Apology>>
  ELSE <<"Conversation reset.">>

Reply(kind, cause, uid, result) ==
  [kind |-> kind, cause |-> cause, uid |-> uid,
   output |-> result.output, tools |-> result.steps, tokens |-> 0,
   text |-> ReplyText(kind), fragments |-> 0, sent |-> 0]

(* _handle_message, the finally block: typing_task.cancel() and the await *)
(* that collects the cancelled task; the handler is over.                  *)
finally(w, h) ==
  [w EXCEPT !.typing = @ \ {h}, !.handlers[h] = NoHandler]

(* ErrorReply that also drops the chat's session and time of last reply *)
ErrorReply_evicts(w, h, cause) ==
  [finally(w, h) EXCEPT !.outbox = Reply("error", cause, h, NoResult),
                        !.executors[w.handlers[h].chat] = 0,
                        !.last[w.handlers[h].chat] = 0]

(* ErrorReply that returns without the finally block's cancel *)
ErrorReply_leaves_typing(w, h, cause) ==
  [w EXCEPT !.outbox = Reply("error", cause, h, NoResult),
            !.handlers[h] = NoHandler]

(* ErrorReply that appends the text of the exception to the apology *)
ErrorReply_shows_exception(w, h, cause) ==
  [finally(w, h) EXCEPT
     !.outbox = [Reply("error", cause, h, NoResult) EXCEPT
                   !.text = IF cause = "min_tools"
                              THEN <<Apology>> \o MinimumToolUsageNotMet(config.min_tools_used)
                              ELSE <<Apology, cause>>]]

(* on_message / _handle_message, the except branch: the generic apology;   *)
(* the session is left as it is.  cause records which exception it was.    *)
ErrorReply(w, h, cause) ==
  [finally(w, h) EXCEPT !.outbox = Reply("error", cause, h, NoResult)]

(* Evict without the second pop *)
Evict_keeps_reply_time(w, chat) == [w EXCEPT !.executors[chat] = 0]

(* self._executors.pop(chat_id, None); self._last_bot_reply_at.pop(chat_id, None) *)
Evict(w, chat) == [w EXCEPT !.executors[chat] = 0, !.last[chat] = 0]

(* the base prompt, whatever the long-term record *)
_system_prompt_base_only(w, chat) == {}

(* _system_prompt_for_chat / _system_prompt_for_channel: the long-term     *)
(* record that follows the base prompt (empty: the base prompt alone).     *)
_system_prompt_for_chat(w, chat) ==
  IF ~config.long_term_memory_enabled THEN {} ELSE w.longterm[chat]

(* backends/factory.build_executor as DiscordBot._get_executor calls it:   *)
(* the call passes memory_reset_to_messages and memory_summary_prompt,     *)
(* which the factory does not accept, and omits session_id, which it       *)
(* requires: the call raises TypeError.                                    *)
FactoryKeywords == {"system_prompt", "session_id", "max_turns",
                    "memory_max_messages", "summary_max_chars"}
DiscordKeywords == {"system_prompt", "max_turns", "memory_max_messages",
                    "memory_reset_to_messages", "memory_summary_prompt",
                    "summary_max_chars"}
factory_build_executor_raises(keywords) == keywords # FactoryKeywords

(* The executor a miss of _get_executor builds *)
build_session(w, chat) ==
  LET fresh == IF config.platform = "telegram"
                 THEN build_memory(config.memory_max_messages, 0)
                 ELSE build_executor(config.memory_max_messages,
                                     config.memory_reset_to_messages)
  IN [fresh EXCEPT !.chat = chat, !.prompt = _system_prompt_for_chat(w, chat)]

(* _get_executor without the lookup: it builds an executor on every call   *)
_get_executor_always_builds(w, h) ==
  LET chat == w.handlers[h].chat
      id == w.nSessions + 1
  IN IF /\ config.platform = "discord" /\ config.import_factory
        /\ factory_build_executor_raises(DiscordKeywords)
       THEN [raised |-> TRUE, w |-> w]
     ELSE IF id > MaxSessions
       THEN [raised |-> FALSE, w |-> [w EXCEPT !.ok = FALSE]]
     ELSE [raised |-> FALSE,
           w |-> [w EXCEPT !.sessions[id] = build_session(w, chat),
                           !.nSessions = id,
                           !.executors[chat] = id,
                           !.handlers[h].executor = id]]

(* TelegramBot._get_executor / DiscordBot._get_executor *)
_get_executor(w, h) ==
  LET chat == w.handlers[h].chat
      id == w.nSessions + 1
  IN IF w.executors[chat] # 0
       THEN [raised |-> FALSE,
             w |-> [w EXCEPT !.handlers[h].executor = w.executors[chat]]]
     ELSE IF /\ config.platform = "discord" /\ config.import_factory
             /\ factory_build_executor_raises(DiscordKeywords)
       THEN [raised |-> TRUE, w |-> w]
     ELSE IF id > MaxSessions
       THEN [raised |-> FALSE, w |-> [w EXCEPT !.ok = FALSE]]
     ELSE [raised |-> FALSE,
           w |-> [w EXCEPT !.sessions[id] = build_session(w, chat),
                           !.nSessions = id,
                           !.executors[chat] = id,
                           !.handlers[h].executor = id]]

(* _run_agent, lines 192-199: the input of attempt number attempt; the     *)
(* instruction names the number of tools.                                  *)
Nudge(min_tools_used) ==
  <<"IMPORTANT: Use at least", ToString(min_tools_used),
    "tools before your final answer.">>

attempt_text(text, attempt) ==
  LET min_tools_used == IF config.min_tools_used > 0 THEN config.min_tools_used ELSE 0
  IN IF attempt # 0 /\ min_tools_used > 0
       THEN <<text>> \o Nudge(min_tools_used)
       ELSE <<text>>

(* the instruction appended to the input of the attempt before *)
next_input_accumulates(hd) ==
  LET min_tools_used == IF config.min_tools_used > 0 THEN config.min_tools_used ELSE 0
  IN IF min_tools_used > 0 THEN hd.input \o Nudge(min_tools_used) ELSE hd.input

(* The input of the attempt that follows a rejected one *)
next_input(hd) == attempt_text(hd.text, hd.attempt + 1)

(* one callback around the whole loop: it adds up the attempts *)
attempt_cb_accumulates(cb, usage) == cb + usage

(* _run_agent, lines 200-202: "with get_openai_callback() as attempt_cb"   *)
(* opens a new counter for every attempt, and cb = attempt_cb keeps the    *)
(* counter of the latest attempt.                                          *)
attempt_cb(cb, usage) == usage

(* _run_agent from the _get_executor call to the first executor.invoke *)
run_agent_loop(w, h) ==
  LET g == _get_executor(w, h)
  IN IF g.raised THEN ErrorReply(g.w, h, "build")
     ELSE [g.w EXCEPT !.handlers[h].pc = "running", !.handlers[h].attempt = 0,
                      !.handlers[h].input = attempt_text(g.w.handlers[h].text, 0)]

(* _finalize_long_term_memory up to the summarizer call: whether the call  *)
(* is made at all.                                                         *)
finalize_calls_summarizer_on_empty(w, chat) ==
  /\ config.long_term_memory_enabled
  /\ w.executors[chat] # 0

finalize_calls_summarizer(w, chat) ==
  /\ config.long_term_memory_enabled
  /\ w.executors[chat] # 0
  /\ w.sessions[w.executors[chat]].messages # <<>>

finalize_begin(w, h) ==
  LET chat == w.handlers[h].chat
  IN [w EXCEPT !.handlers[h].pc = "finalizing",
               !.handlers[h].conversation = w.sessions[w.executors[chat]].messages,
               !.handlers[h].previous = w.longterm[chat]]

(* get_long_term_memory_path: the file of a chat's long-term record, the   *)
(* directory joined with "<chat_id>.txt"                                   *)
get_long_term_memory_path(chat_id) ==
  <<"long_term_memory_dir", ToString(chat_id), ".txt">>

(* the time of reply recorded for every chat *)
record_reply_for_all(w, chat, t) == [w EXCEPT !.last = [c \in Chats |-> t]]

(* _handle_message line 256 / on_message line 112:                         *)
(* self._last_bot_reply_at[chat_id] = time.time()                          *)
record_reply(w, chat, t) == [w EXCEPT !.last[chat] = t]

(* the idle check with >= in place of > *)
idle_expired_at_limit(w, chat) ==
  /\ config.memory_reset_minutes > 0
  /\ w.last[chat] # 0
  /\ (now - w.last[chat]) >= config.memory_reset_minutes

(* _run_agent, lines 180-187: the idle check *)
idle_expired(w, chat) ==
  /\ config.memory_reset_minutes > 0
  /\ w.last[chat] # 0
  /\ (now - w.last[chat]) > config.memory_reset_minutes

_run_agent(w, h) ==
  LET chat == w.handlers[h].chat
  IN IF idle_expired(w, chat)
       THEN IF finalize_calls_summarizer(w, chat)
              THEN finalize_begin(w, h)
              ELSE run_agent_loop(Evict(w, chat), h)
       ELSE run_agent_loop(w, h)

(* after_invoke with one attempt fewer than max_attempts *)
after_invoke_one_attempt_short(w, h) ==
  LET hd == w.handlers[h]
      min_tools_used == IF config.min_tools_used > 0 THEN config.min_tools_used ELSE 0
  IN IF min_tools_used <= 0 \/ hd.result.steps >= min_tools_used
       THEN [w EXCEPT !.handlers[h].pc = "sending"]
     ELSE IF hd.attempt + 1 < max_attempts - 1
       THEN [w EXCEPT !.handlers[h].pc = "running",
                      !.handlers[h].attempt = hd.attempt + 1,
                      !.handlers[h].input = next_input(hd)]
     ELSE ErrorReply(w, h, "min_tools")

(* after_invoke that asks for more tool steps than min_tools_used *)
after_invoke_strict(w, h) ==
  LET hd == w.handlers[h]
      min_tools_used == IF config.min_tools_used > 0 THEN config.min_tools_used ELSE 0
  IN IF min_tools_used <= 0 \/ hd.result.steps > min_tools_used
       THEN [w EXCEPT !.handlers[h].pc = "sending"]
     ELSE IF hd.attempt + 1 < max_attempts
       THEN [w EXCEPT !.handlers[h].pc = "running",
                      !.handlers[h].attempt = hd.attempt + 1,
                      !.handlers[h].input = next_input(hd)]
     ELSE ErrorReply(w, h, "min_tools")

(* _run_agent, lines 203-209: the decision after one attempt *)
after_invoke(w, h) ==
  LET hd == w.handlers[h]
      min_tools_used == IF config.min_tools_used > 0 THEN config.min_tools_used ELSE 0
  IN IF min_tools_used <= 0 \/ hd.result.steps >= min_tools_used
       THEN [w EXCEPT !.handlers[h].pc = "sending"]
     ELSE IF hd.attempt + 1 < max_attempts
       THEN [w EXCEPT !.handlers[h].pc = "running",
                      !.handlers[h].attempt = hd.attempt + 1,
                      !.handlers[h].input = next_input(hd)]
     ELSE ErrorReply(w, h, "min_tools")

(* The handler of update u starts; _handle_message creates the typing     *)
(* task (line 246) before it calls _run_agent.                             *)
StartHandler(w, h, u) ==
  [w EXCEPT !.handlers[h] = [NoHandler EXCEPT
                               !.op = u.op, !.chat = u.chat,
                               !.text = IF u.op = "message" THEN u.text ELSE @],
            !.typing = IF config.platform = "telegram" /\ u.op = "message"
                         THEN @ \cup {h} ELSE @]

(* ---------------------------- configuration ---------------------------- *)
TelegramOpen ==
  [allow_dms |-> TRUE, dm_allowlist_ids |-> {}, dm_allowlist_usernames |-> {},
   dm_allowlist_usernames_regex |-> {}, dm_require_regex |-> {},
   allow_groups |-> TRUE, group_allowlist_ids |-> {},
   group_allowlist_title_regex |-> {}, group_require_regex |-> {}]

TelegramListed ==
  [TelegramOpen EXCEPT !.dm_allowlist_ids = {1},
                       !.dm_require_regex = {Pattern(TRUE, {"hello", "chack hello"})}]

DiscordListed ==
  [channel_ids |-> Chats, trigger_words |-> {{"chack hello"}}]

Platforms ==
  { [platform |-> "telegram", import_factory |-> FALSE],
    [platform |-> "discord", import_factory |-> FALSE],
    [platform |-> "discord", import_factory |-> TRUE] }

Config(p, m, r, mins, ltm, t) ==
  [platform |-> p.platform, import_factory |-> p.import_factory,
   telegram |-> TelegramListed, discord |-> DiscordListed,
   memory_max_messages |-> m, memory_reset_to_messages |-> r,
   memory_reset_minutes |-> mins, long_term_memory_enabled |-> ltm,
   min_tools_used |-> t]

(* The configurations of the life-cycle specification: no minimum tool use *)
Configs ==
  { Config(p, m, r, mins, ltm, 0) :
     p \in Platforms, m \in 0..MaxLimit, r \in 0..(MaxLimit + 1),
     mins \in 0..MaxReset, ltm \in BOOLEAN }

Updates == [op : {"message", "reset"}, chat : Chats, user : Users, text : Texts]

(* The bot after construction, with the long-term records found on disk *)
InitBotWith(configs, records) ==
  /\ config \in configs
  /\ executors = [c \in Chats |-> 0]
  /\ last_bot_reply_at = [c \in Chats |-> 0]
  /\ sessions = [id \in SessionIds |-> NoSession]
  /\ nSessions = 0
  /\ longterm \in records
  /\ handlers = [h \in Uids |-> NoHandler]
  /\ outbox = NoReply
  /\ now = 1
  /\ nUpdates = 0
  /\ lastUpdate = NoUpdate
  /\ typing = {}

NoRecords == [c \in Chats |-> {}]
InitBot(configs) == InitBotWith(configs, {NoRecords})

InitWith(configs) ==
  /\ InitBot(configs)
  /\ args = NoCall
  /\ returned = NoCall

Init == InitWith(Configs)

(* ------------------------------- actions ------------------------------- *)
Active == {h \in Uids : handlers[h].pc # "idle"}

(* An update arrives.  lastUpdate holds it during the step that receives   *)
(* it; nUpdates numbers the updates that reach the agent.                  *)
ReceiveWithin(u, updates) ==
  /\ nUpdates < updates
  /\ lastUpdate' = u
  /\ UNCHANGED <<config, now, args, returned>>

Receive(u) == ReceiveWithin(u, MaxUpdates)

(* Dropped that answers the sender with the apology *)
Dropped_with_apology ==
  /\ nUpdates' = nUpdates
  /\ Commit([World EXCEPT !.outbox = Reply("error", "denied", 0, NoResult)])

(* the early returns of _handle_message, _handle_reset and on_message *)
Dropped == nUpdates' = nUpdates /\ Commit(World)
Accepted(w) == nUpdates' = nUpdates + 1 /\ Commit(w)

Step ==
  /\ lastUpdate' = NoUpdate
  /\ UNCHANGED <<config, now, nUpdates, args, returned>>

(* The Application built by TelegramBot.run handles one update at a time:  *)
(* a handler runs to its end before the next update is taken.              *)
TelegramReady ==
  /\ config.platform = "telegram"
  /\ Active = {}

(* TelegramBot._handle_message *)
_handle_message_within(updates) ==
  \E u \in Updates :
    /\ TelegramReady
    /\ u.op = "message"
    /\ ReceiveWithin(u, updates)
    /\ IF ~_message_allowed(config.telegram, u) THEN Dropped
       ELSE IF Strip(u.text) = "" THEN Dropped
       ELSE Accepted(_run_agent(StartHandler(World, nUpdates + 1, u), nUpdates + 1))

_handle_message == _handle_message_within(MaxUpdates)

(* TelegramBot._handle_reset *)
_handle_reset ==
  \E u \in Updates :
    /\ TelegramReady
    /\ u.op = "reset"
    /\ Receive(u)
    /\ IF ~_chat_allowed(config.telegram, u) THEN Dropped
       ELSE LET h == nUpdates + 1
                w == StartHandler(World, h, u)
            IN IF finalize_calls_summarizer(w, u.chat)
                 THEN Accepted(finalize_begin(w, h))
                 ELSE Accepted([Evict(w, u.chat) EXCEPT
                        !.outbox = Reply("reset", "none", h, NoResult),
                        !.handlers[h] = NoHandler])

(* DiscordBot.on_message: every message is dispatched as its own task, so  *)
(* a message can arrive while others are being handled (fewer than limit). *)
on_message_within(limit, updates) ==
  \E u \in Updates :
    /\ config.platform = "discord"
    /\ u.op = "message"
    /\ Cardinality(Active) < limit
    /\ ReceiveWithin(u, updates)
    /\ IF ~discord_allowed(config.discord, u) THEN Dropped
       ELSE Accepted(_run_agent(StartHandler(World, nUpdates + 1, u), nUpdates + 1))

on_message_while(limit) == on_message_within(limit, MaxUpdates)

on_message == on_message_while(MaxActive)

(* Discord messages that arrive one at a time, each after the previous one *)
(* has been handled.                                                       *)
on_message_alone == on_message_while(1)

(* the idle session dropped although its finalization raised *)
finalization_raised_evicts(w, h) ==
  ErrorReply(Evict(w, w.handlers[h].chat), h, "finalization")

(* _run_agent line 184: the await of _finalize_long_term_memory raises, so *)
(* lines 185-186 (the two pops) and the rest of _run_agent are skipped and *)
(* _handle_message answers with the apology.                               *)
finalization_raised(w, h) == ErrorReply(w, h, "finalization")

(* the save without the test of the summarizer's text *)
save_always(w, chat, updated) == [w EXCEPT !.longterm[chat] = updated]

(* _finalize_long_term_memory, lines 176-177: "if updated:" and the save   *)
save_if_updated(w, chat, updated) ==
  IF updated # {} THEN [w EXCEPT !.longterm[chat] = updated] ELSE w

(* _finalize_long_term_memory after build_long_term_memory has returned    *)
(* (or raised), and what the caller does next.                             *)
FinalizeReturn ==
  \E h \in Uids, outcome \in {"ok", "empty", "raise"} :
    LET hd == handlers[h]
        updated == IF outcome = "ok"
                     THEN hd.previous \cup SeqToSet(hd.conversation)
                     ELSE {}
        saved == save_if_updated(World, hd.chat, updated)
        evicted == [Evict(saved, hd.chat) EXCEPT
                      !.handlers[h].conversation = <<>>,
                      !.handlers[h].previous = {}]
    IN /\ hd.pc = "finalizing"
       /\ Step
       /\ IF outcome = "raise"
            THEN IF hd.op = "message"
                   THEN Commit(finalization_raised(World, h))
                   ELSE Commit([World EXCEPT !.handlers[h] = NoHandler])
          ELSE IF hd.op = "message"
            THEN Commit(run_agent_loop(evicted, h))
          ELSE Commit([evicted EXCEPT
                 !.outbox = Reply("reset", "none", h, NoResult),
                 !.handlers[h] = NoHandler])

(* What the callback of one attempt counts: the tokens of the calls that   *)
(* a LangChain executor makes while it is open; the calls of an            *)
(* AgentsExecutor do not go through LangChain's callbacks and count 0.     *)
MaxUsage == 2
Usages(kind) == IF kind = "langchain" THEN 1..MaxUsage ELSE {0}

(* The numbers of tool steps an attempt may report: what matters to the    *)
(* retry loop is how the number compares with min_tools_used.              *)
StepCounts == 0..(config.min_tools_used + MaxSteps)

(* executor.invoke: the agent has returned; the window is updated          *)
RunnerReturn ==
  \E h \in Uids, output \in BOOLEAN, steps \in StepCounts, usage \in 0..MaxUsage :
    LET hd == handlers[h]
        session == sessions[hd.executor]
        r == save_context(session, h, output)
        w == [World EXCEPT !.sessions[hd.executor].messages = r.messages,
                           !.handlers[h].result = [output |-> output, steps |-> steps,
                                                   usage |-> usage],
                           !.handlers[h].cb = attempt_cb(hd.cb, usage)]
    IN /\ hd.pc = "running"
       /\ usage \in Usages(session.kind)
       /\ Step
       /\ IF calls_summarizer(r)
            THEN Commit([w EXCEPT !.handlers[h].pc = "summarizing",
                                  !.handlers[h].pruned = r.pruned,
                                  !.handlers[h].summary_arg = session.summary])
            ELSE Commit(after_invoke(w, h))

(* executor.invoke: the agent call raises *)
RunnerRaise ==
  \E h \in Uids :
    /\ handlers[h].pc = "running"
    /\ Step
    /\ Commit(ErrorReply(World, h, "upstream"))

(* predict_new_summary / build_memory_summary has returned (or raised) *)
SummaryReturn ==
  \E h \in Uids, outcome \in {"ok", "empty", "raise"} :
    LET hd == handlers[h]
        text == IF outcome = "ok" THEN hd.summary_arg \cup SeqToSet(hd.pruned) ELSE {}
        w == [World EXCEPT !.sessions[hd.executor].summary = text,
                           !.handlers[h].pruned = <<>>,
                           !.handlers[h].summary_arg = {}]
    IN /\ hd.pc = "summarizing"
       /\ Step
       /\ IF outcome = "raise"
            THEN Commit(ErrorReply(World, h, "upstream"))
            ELSE Commit(after_invoke(w, h))

(* The reply is sent; the time of the reply is recorded after the last     *)
(* fragment.  A failed send ends in the except branch.                     *)
MaxFragments == 2

(* the time of reply recorded as soon as one fragment is out *)
send_fragments_stamps_early(w, h, n, sent) ==
  LET hd == w.handlers[h]
      failed == [ErrorReply(w, h, "send") EXCEPT !.outbox.fragments = n,
                                                 !.outbox.sent = sent]
  IN IF sent = n
       THEN [record_reply(finally(w, h), hd.chat, now) EXCEPT
               !.outbox = [Reply("answer", "none", h, hd.result) EXCEPT
                             !.tokens = hd.cb, !.fragments = n, !.sent = n]]
     ELSE IF sent > 0 THEN record_reply(failed, hd.chat, now)
     ELSE failed

(* _handle_message lines 248-256 / on_message lines 102-112: the reply is  *)
(* sent as n fragments, one after the other; the time of the reply is      *)
(* recorded after the last one.  A send that raises after sent fragments   *)
(* ends the loop in the except branch.                                     *)
send_fragments(w, h, n, sent) ==
  LET hd == w.handlers[h]
  IN IF sent = n
       THEN [record_reply(finally(w, h), hd.chat, now) EXCEPT
               !.outbox = [Reply("answer", "none", h, hd.result) EXCEPT
                             !.tokens = hd.cb, !.fragments = n, !.sent = n]]
       ELSE [ErrorReply(w, h, "send") EXCEPT !.outbox.fragments = n,
                                             !.outbox.sent = sent]

SendReply ==
  \E h \in Uids, n \in 1..MaxFragments :
    \E sent \in 0..n :
      /\ handlers[h].pc = "sending"
      /\ Step
      /\ Commit(send_fragments(World, h, n, sent))

(* time.time() advances.  The clock is read only by the idle check, and     *)
(* only for a chat that has a time of last reply (the 'and' of line 183    *)
(* short-circuits): before the first reply is recorded, and when           *)
(* memory_reset_minutes is 0, its value is never looked at.                *)
Tick ==
  /\ now < MaxTime
  /\ config.memory_reset_minutes > 0
  /\ \E c \in Chats : last_bot_reply_at[c] # 0
  /\ now' = now + 1
  /\ lastUpdate' = NoUpdate
  /\ outbox' = NoReply
  /\ UNCHANGED <<config, executors, last_bot_reply_at, sessions, nSessions,
                 longterm, handlers, nUpdates, typing, args, returned>>

Next ==
  \/ _handle_message
  \/ _handle_reset
  \/ on_message
  \/ FinalizeReturn
  \/ RunnerReturn
  \/ RunnerRaise
  \/ SummaryReturn
  \/ SendReply
  \/ Tick

Spec == Init /\ [][Next]_vars

(* The retry loop: a minimum tool use is configured, one message is        *)
(* handled at a time, and there is neither idle reset nor long-term memory.*)
RetryConfigs ==
  { Config(p, m, 0, 0, FALSE, t) :
     p \in {q \in Platforms : ~q.import_factory}, m \in 1..MaxLimit,
     t \in 0..MaxTools }

InitRetry == InitWith(RetryConfigs)

NextRetry ==
  \/ _handle_message
  \/ on_message_alone
  \/ RunnerReturn
  \/ RunnerRaise
  \/ SummaryReturn
  \/ SendReply

SpecRetry == InitRetry /\ [][NextRetry]_vars

(* Idle reset: one chat's messages on either platform, long-term memory    *)
(* on, idle reset after one unit of time, up to MaxBurst messages, so that *)
(* a session can be answered, go idle and then meet further messages.      *)
IdleConfigs ==
  { Config(p, MaxLimit, 0, 1, TRUE, 0) : p \in {q \in Platforms : ~q.import_factory} }

(* A record that an earlier run of the bot left for chat 1: the text made  *)
(* from a message of that run.                                             *)
EarlierRecord == {[u |-> 0, role |-> "user"]}
IdleRecords == {NoRecords, [NoRecords EXCEPT ![1] = EarlierRecord]}

InitIdle ==
  /\ InitBotWith(IdleConfigs, IdleRecords)
  /\ args = NoCall
  /\ returned = NoCall

_handle_message_burst == _handle_message_within(MaxBurst)
on_message_burst == on_message_within(MaxActive, MaxBurst)

NextIdle ==
  \/ _handle_message_burst
  \/ on_message_burst
  \/ FinalizeReturn
  \/ RunnerReturn
  \/ RunnerRaise
  \/ SummaryReturn
  \/ SendReply
  \/ Tick

SpecIdle == InitIdle /\ [][NextIdle]_vars

(* The access filter: Telegram configurations that exercise the allow-     *)
(* lists and the content gates of one conversation kind at a time, among   *)
(* them lists whose only regex does not compile.  The configuration object *)
(* is the one TelegramBot is constructed with.                             *)
NamePattern == Pattern(TRUE, {"alice", "Alice"})
TitlePattern == Pattern(TRUE, {"ops"})
OtherTitlePattern == Pattern(TRUE, {"dev"})
GatePattern == Pattern(TRUE, {"chack hello"})
BadPattern == Pattern(FALSE, {})

DmAccessConfigs ==
  { [TelegramOpen EXCEPT !.allow_dms = a, !.dm_allowlist_ids = ids,
                         !.dm_allowlist_usernames = names,
                         !.dm_allowlist_usernames_regex = rx,
                         !.dm_require_regex = gate] :
      a \in BOOLEAN, ids \in {{}, {2}}, names \in {{}, {"Alice"}, {"bob"}},
      rx \in {{}, {NamePattern}, {BadPattern}, {NamePattern, BadPattern}},
      gate \in {{}, {GatePattern}, {BadPattern}} }

GroupAccessConfigs ==
  { [TelegramOpen EXCEPT !.allow_groups = a, !.group_allowlist_ids = ids,
                         !.group_allowlist_title_regex = rx,
                         !.group_require_regex = gate] :
      a \in BOOLEAN, ids \in {{}, {2}, {4}},
      rx \in {{}, {TitlePattern}, {OtherTitlePattern}, {BadPattern}},
      gate \in {{}, {GatePattern}, {BadPattern}} }

AccessConfigs ==
  { [Config([platform |-> "telegram", import_factory |-> FALSE], 1, 0, 0, TRUE, 0)
       EXCEPT !.telegram = tg] : tg \in DmAccessConfigs \cup GroupAccessConfigs }

InitAccess == InitWith(AccessConfigs)

NextAccess ==
  \/ _handle_message
  \/ _handle_reset
  \/ FinalizeReturn
  \/ RunnerReturn
  \/ RunnerRaise
  \/ SummaryReturn
  \/ SendReply

SpecAccess == InitAccess /\ [][NextAccess]_vars

(* ------------------------------- pricing ------------------------------- *)
MaxTokens == 3
MaxRate == 2
PerMillion == 1000000

Max(a, b) == IF a >= b THEN a ELSE b

(* ModelPricing and PricingTable.models: rates per million tokens *)
ModelPricing == [input : 0..MaxRate, cached_input : 0..MaxRate, output : 0..MaxRate]
PricingTables ==
  {[m \in {"gpt"} |-> r] : r \in ModelPricing}
    \cup {[m \in {"gpt", "mini"} |-> IF m = "gpt" THEN r ELSE [input |-> 1, cached_input |-> 0, output |-> 1]] :
            r \in {[input |-> 2, cached_input |-> 1, output |-> 2]}}

(* The float a call returns, as the fraction num / den; none is Python's   *)
(* None.                                                                   *)
Cost(none, num, den) == [fn |-> "estimate_cost", none |-> none, num |-> num, den |-> den]

(* estimate_cost that bills prompt - cached without the max *)
estimate_cost_unclamped(pricing, model, prompt_tokens, completion_tokens, cached_prompt_tokens) ==
  IF model \notin DOMAIN pricing THEN Cost(TRUE, 0, 1)
  ELSE LET rates == pricing[model]
           billable_prompt == prompt_tokens - cached_prompt_tokens
           total == billable_prompt * rates.input
                      + cached_prompt_tokens * rates.cached_input
                      + completion_tokens * rates.output
       IN Cost(FALSE, total, PerMillion)

(* pricing.estimate_cost *)
estimate_cost(pricing, model, prompt_tokens, completion_tokens, cached_prompt_tokens) ==
  IF model \notin DOMAIN pricing THEN Cost(TRUE, 0, 1)
  ELSE LET rates == pricing[model]
           billable_prompt == Max(prompt_tokens - cached_prompt_tokens, 0)
           total == billable_prompt * rates.input
                      + cached_prompt_tokens * rates.cached_input
                      + completion_tokens * rates.output
       IN Cost(FALSE, total, PerMillion)

(* The calls _run_agent makes: the token counts are the callback's,        *)
(* coerced to int with 'or 0'.                                             *)
CostCalls ==
  [fn : {"estimate_cost"}, pricing : PricingTables, model : {"gpt", "mini"},
   prompt_tokens : 0..MaxTokens, completion_tokens : 0..MaxTokens,
   cached_prompt_tokens : 0..MaxTokens]

AnyConfig == Config([platform |-> "telegram", import_factory |-> FALSE], 1, 0, 0, FALSE, 0)

InitCost ==
  /\ InitBot({AnyConfig})
  /\ args \in CostCalls
  /\ returned = NoCall

estimate_cost_returns ==
  /\ args.fn = "estimate_cost"
  /\ returned = NoCall
  /\ returned' = estimate_cost(args.pricing, args.model, args.prompt_tokens,
                               args.completion_tokens, args.cached_prompt_tokens)
  /\ UNCHANGED <<bot, args>>

SpecCost == InitCost /\ [][estimate_cost_returns]_vars

(* ----------------------------- the splitter ---------------------------- *)
MaxLines == 4
fence_len == 3
blunt_floor == 500
blunt_margin == 200

(* A line of a text: its place in the text (0: a fence line the splitter   *)
(* injects), its number of characters, whether line.strip() starts with    *)
(* the fence marker, and, for a slice of a line, which slice it is.        *)
Line(id, len, fence) == [id |-> id, len |-> len, fence |-> fence, part |-> 0]
InjectedFence == Line(0, fence_len, TRUE)

(* len("\n".join(lines)) *)
RECURSIVE SumLen(_)
SumLen(lines) == IF lines = <<>> THEN 0 ELSE Head(lines).len + SumLen(Tail(lines))
JoinLen(lines) == IF lines = <<>> THEN 0 ELSE SumLen(lines) + Len(lines) - 1

(* flush that empties current without emitting it *)
flush_loses_fragment(st) ==
  IF st.current = <<>> THEN st
  ELSE [st EXCEPT !.current = IF st.in_code THEN <<InjectedFence>> ELSE <<>>]

(* _split_for_telegram.flush *)
flush(st) ==
  IF st.current = <<>> THEN st
  ELSE LET closed == IF st.in_code THEN Append(st.current, InjectedFence) ELSE st.current
       IN [st EXCEPT !.chunks = Append(st.chunks, closed),
                     !.current = IF st.in_code THEN <<InjectedFence>> ELSE <<>>]

(* line[i : i + chunk_size] for i in range(0, len(line), chunk_size) *)
blunt_slices(line, chunk_size) ==
  LET n == (line.len + chunk_size - 1) \div chunk_size
  IN [k \in 1..n |->
        <<[line EXCEPT !.len = IF k < n THEN chunk_size
                                ELSE line.len - (n - 1) * chunk_size,
                       !.fence = line.fence /\ k = 1,
                       !.part = k]>>]

(* the body of the for loop, for one line *)
split_line(st, line, limit) ==
  LET toggled == [st EXCEPT !.in_code = IF line.fence THEN ~st.in_code ELSE st.in_code]
      flushed == IF JoinLen(Append(toggled.current, line)) > limit /\ toggled.current # <<>>
                   THEN flush(toggled) ELSE toggled
      candidate == Append(flushed.current, line)
  IN IF JoinLen(candidate) > limit /\ flushed.current = <<>>
       THEN [flushed EXCEPT !.chunks = flushed.chunks
                               \o blunt_slices(line, Max(blunt_floor, limit - blunt_margin))]
       ELSE [flushed EXCEPT !.current = candidate]

RECURSIVE split_loop(_, _, _)
split_loop(st, lines, limit) ==
  IF lines = <<>> THEN st
  ELSE split_loop(split_line(st, Head(lines), limit), Tail(lines), limit)

(* TelegramBot._split_for_telegram, on the lines of the text; a chunk is   *)
(* the sequence of the lines that are joined into it.                      *)
_split_for_telegram(lines, limit) ==
  LET st == split_loop([chunks |-> <<>>, current |-> <<>>, in_code |-> FALSE], lines, limit)
  IN IF st.current # <<>>
       THEN Append(st.chunks, IF st.in_code THEN Append(st.current, InjectedFence)
                              ELSE st.current)
       ELSE st.chunks

(* Texts of up to MaxLines lines: fence lines, empty, short and long       *)
(* lines, and a line longer than the limit of the replies.                 *)
LineKinds == {<<3, TRUE>>, <<0, FALSE>>, <<4, FALSE>>, <<8, FALSE>>,
              <<3490, FALSE>>, <<7000, FALSE>>}
SplitTexts ==
  UNION {[1..n -> LineKinds] : n \in 0..MaxLines}
LinesOf(text) == [i \in 1..Len(text) |-> Line(i, text[i][1], text[i][2])]
(* 3500 is the limit _handle_message passes *)
SplitLimits == {10, 3500}
SplitCalls == [fn : {"_split_for_telegram"}, text : SplitTexts, limit : SplitLimits]

InitSplit ==
  /\ InitBot({AnyConfig})
  /\ args \in SplitCalls
  /\ returned = NoCall

_split_for_telegram_returns ==
  /\ args.fn = "_split_for_telegram"
  /\ returned = NoCall
  /\ returned' = [fn |-> "_split_for_telegram",
                  chunks |-> _split_for_telegram(LinesOf(args.text), args.limit)]
  /\ UNCHANGED <<bot, args>>

SpecSplit == InitSplit /\ [][_split_for_telegram_returns]_vars

(* -------------------------------- texts -------------------------------- *)
MaxChars == 3

(* A text is the sequence of its characters; " " stands for whitespace.    *)
Chars == {"a", " "}
Strings == UNION {[1..n -> Chars] : n \in 0..MaxChars}

(* content[:n] *)
Prefix(content, n) == SubSeq(content, 1, IF n < Len(content) THEN n ELSE Len(content))

(* str.rstrip, str.lstrip and str.strip *)
RECURSIVE rstrip(_)
rstrip(content) ==
  IF content # <<>> /\ content[Len(content)] = " "
    THEN rstrip(SubSeq(content, 1, Len(content) - 1))
    ELSE content
RECURSIVE lstrip(_)
lstrip(content) ==
  IF content # <<>> /\ Head(content) = " " THEN lstrip(Tail(content)) ELSE content
strip(content) == rstrip(lstrip(content))

(* the cut that keeps one character more than max_chars *)
truncate_keeps_one_more(content, max_chars) ==
  IF max_chars > 0 /\ Len(content) > max_chars
    THEN rstrip(Prefix(content, max_chars + 1))
    ELSE content

(* save_long_term_memory, line 32-33, and the same two lines at the end of *)
(* build_long_term_memory and build_memory_summary                         *)
truncate(content, max_chars) ==
  IF max_chars > 0 /\ Len(content) > max_chars
    THEN rstrip(Prefix(content, max_chars))
    ELSE content

(* --------------------------- the record's file ------------------------- *)
(* save_long_term_memory as the steps the file goes through: open(path,    *)
(* "w") empties the file, the buffered write reaches it in one piece or in *)
(* several, and the process can stop between any two of them.              *)
SaveCalls ==
  [fn : {"save_long_term_memory"}, previous : {<<>>, <<"a", " ", "a">>},
   content : Strings, max_chars : 0..MaxChars]

File(pc, file) == [fn |-> "save_long_term_memory", pc |-> pc, file |-> file]

InitSave ==
  /\ InitBot({AnyConfig})
  /\ args \in SaveCalls
  /\ returned = File("start", args.previous)

save_open ==
  /\ returned.pc = "start"
  /\ returned' = File("opened", <<>>)
  /\ UNCHANGED <<bot, args>>

save_flush_part ==
  /\ returned.pc = "opened"
  /\ \E n \in 1..(Len(truncate(args.content, args.max_chars)) - 1) :
       /\ n > Len(returned.file)
       /\ returned' = File("opened", Prefix(truncate(args.content, args.max_chars), n))
  /\ UNCHANGED <<bot, args>>

save_close ==
  /\ returned.pc = "opened"
  /\ returned' = File("closed", truncate(args.content, args.max_chars))
  /\ UNCHANGED <<bot, args>>

save_crash ==
  /\ returned.pc \in {"start", "opened"}
  /\ returned' = File("crashed", returned.file)
  /\ UNCHANGED <<bot, args>>

NextSave == save_open \/ save_flush_part \/ save_close \/ save_crash

SpecSave == InitSave /\ [][NextSave]_vars

(* --------------------------- the running summary ----------------------- *)
(* build_memory_summary, lines 110-115: what is kept of the summarizer's   *)
(* final_output                                                            *)
build_memory_summary(content, max_chars) == truncate(strip(content), max_chars)

(* _SafeSummaryBufferMemory.prune: moving_summary_buffer is assigned what  *)
(* predict_new_summary returns; the summary budget is no argument of       *)
(* build_memory and takes no part.                                         *)
moving_summary_buffer(content, max_chars) == content

(* The running summary a compaction stores, per kind of session *)
compacted_summary(kind, content, max_chars) ==
  IF kind = "langchain"
    THEN moving_summary_buffer(content, max_chars)
    ELSE build_memory_summary(content, max_chars)

SessionKinds == {"langchain", "agents"}
SummaryCalls ==
  [fn : {"compaction"}, kind : SessionKinds, content : Strings,
   max_chars : 0..MaxChars]

Summary(text) == [fn |-> "compaction", summary |-> text]

InitSummary ==
  /\ InitBot({AnyConfig})
  /\ args \in SummaryCalls
  /\ returned = NoCall

compaction_returns ==
  /\ returned = NoCall
  /\ returned' = Summary(compacted_summary(args.kind, args.content, args.max_chars))
  /\ UNCHANGED <<bot, args>>

SpecSummary == InitSummary /\ [][compaction_returns]_vars

(* --------------------------- Discord splitter -------------------------- *)
(* A text is its lines (splitlines) and whether a newline ends it (an      *)
(* empty last line is always ended by one); a fragment is the lines joined *)
(* in it, and the text itself, final newline included, when it is          *)
(* returned whole.                                                         *)
DiscordText(lines, newline) == [lines |-> lines, newline |-> newline]
TextLen(text) == JoinLen(text.lines) + (IF text.newline THEN 1 ELSE 0)

(* the loop of _split_for_discord, lines 248-254 *)
RECURSIVE discord_loop(_, _, _, _)
discord_loop(chunks, current, lines, limit) ==
  IF lines = <<>>
    THEN [chunks |-> chunks, current |-> current]
    ELSE LET line == Head(lines)
             candidate == Append(current, line)
         IN IF JoinLen(candidate) > limit /\ current # <<>>
              THEN discord_loop(Append(chunks, DiscordText(current, FALSE)), <<line>>,
                                Tail(lines), limit)
              ELSE discord_loop(chunks, candidate, Tail(lines), limit)

(* the splitter that closes a fragment one line too late *)
_split_for_discord_closes_late(text, limit) ==
  IF TextLen(text) <= limit
    THEN <<text>>
    ELSE LET r == discord_loop(<<>>, <<>>, text.lines, limit + 1)
         IN IF r.current # <<>>
              THEN Append(r.chunks, DiscordText(r.current, FALSE))
              ELSE r.chunks

(* DiscordBot._split_for_discord *)
_split_for_discord(text, limit) ==
  IF TextLen(text) <= limit
    THEN <<text>>
    ELSE LET r == discord_loop(<<>>, <<>>, text.lines, limit)
         IN IF r.current # <<>>
              THEN Append(r.chunks, DiscordText(r.current, FALSE))
              ELSE r.chunks

(* Texts of up to MaxLines lines, of these lengths; on_message passes      *)
(* limit=1900, and the splitter has no constant of its own, so small       *)
(* limits exercise the same branches.                                      *)
DiscordLineLens == {0, 1, 3, 5}
DiscordLimits == {3, 4}
DiscordTexts ==
  { t \in { DiscordText([i \in 1..Len(lens) |-> Line(i, lens[i], FALSE)], nl) :
             lens \in UNION {[1..n -> DiscordLineLens] : n \in 0..MaxLines},
             nl \in BOOLEAN } :
      IF t.lines = <<>> THEN ~t.newline
      ELSE t.lines[Len(t.lines)].len = 0 => t.newline }
DiscordSplitCalls ==
  [fn : {"_split_for_discord"}, text : DiscordTexts, limit : DiscordLimits]

InitDiscordSplit ==
  /\ InitBot({AnyConfig})
  /\ args \in DiscordSplitCalls
  /\ returned = NoCall

_split_for_discord_returns ==
  /\ args.fn = "_split_for_discord"
  /\ returned = NoCall
  /\ returned' = [fn |-> "_split_for_discord",
                  chunks |-> _split_for_discord(args.text, args.limit)]
  /\ UNCHANGED <<bot, args>>

SpecDiscordSplit == InitDiscordSplit /\ [][_split_for_discord_returns]_vars

(* ============================== properties ============================= *)
Live == {id \in SessionIds : sessions[id].kind # "none"}
Invoking(h) == handlers[h].pc \in {"running", "summarizing"}
(* The step receives an update that reaches the agent or the reset logic.  *)
Arrives(h) == nUpdates' = nUpdates + 1 /\ h = nUpdates'
(* The step in which handler h starts its first attempt.                   *)
Enters(h) == handlers[h].pc \in {"idle", "finalizing"} /\ handlers'[h].pc = "running"
(* The step in which the window of h's session is compacted.               *)
Compacts(h) == handlers[h].pc = "running" /\ handlers'[h].pc = "summarizing"

(* C1: with 1 <= target <= trigger, the short-term window never holds more *)
(* than trigger messages once an invocation's bookkeeping is done, and     *)
(* whenever compaction fires the window holds exactly target messages      *)
(* right afterwards.                                                       *)
C1_Bounded ==
  \A id \in Live :
    /\ 1 <= sessions[id].target /\ sessions[id].target <= sessions[id].trigger
    /\ Len(sessions[id].messages) <= sessions[id].trigger

C1_CompactsToTarget ==
  \A h \in Uids :
    Compacts(h) =>
      LET id == handlers[h].executor
      IN /\ Len(sessions'[id].messages) = sessions'[id].target
         /\ Len(sessions[id].messages) + 2 > sessions[id].trigger

C1_WindowBounded == [](C1_Bounded) /\ [][C1_CompactsToTarget]_vars

C1_Witness ==
  \E h \in Uids :
    /\ handlers[h].pc = "summarizing"
    /\ sessions[handlers[h].executor].target < sessions[handlers[h].executor].trigger
    /\ Len(sessions[handlers[h].executor].messages) = sessions[handlers[h].executor].target
    /\ Len(handlers[h].pruned) > 1

(* C2: when the summarization call of a compaction raises or returns empty *)
(* text, the messages selected for compaction are still in the window or   *)
(* in the running summary afterwards.                                      *)
C2_Kept ==
  \A h \in Uids :
    (/\ handlers[h].pc = "summarizing"
     /\ handlers'[h].pc # "summarizing"
     /\ executors'[handlers[h].chat] = handlers[h].executor) =>
      LET id == handlers[h].executor
      IN SeqToSet(handlers[h].pruned) \subseteq
           (SeqToSet(sessions'[id].messages) \cup sessions'[id].summary)

C2_CompactedMessagesKept == [][C2_Kept]_vars

(* C3: a session is created only for an identity that has none (or whose   *)
(* session the creating handler evicts for idleness), it is registered in  *)
(* the same step, every message starts its first attempt on the registered *)
(* session, and without idle reset all messages of an identity that are in *)
(* flight use one session, the only one created for it.                    *)
C3_CreatedOnMiss ==
  nSessions' # nSessions =>
    LET id == nSessions'
        chat == sessions'[id].chat
    IN /\ id = nSessions + 1
       /\ executors'[chat] = id
       /\ \/ executors[chat] = 0
          \/ \E h \in Uids : handlers[h].pc = "finalizing" /\ handlers'[h].executor = id
          \/ idle_expired(World, chat)

C3_StartsOnRegistered ==
  \A h \in Uids :
    Enters(h) => /\ handlers'[h].executor # 0
                 /\ handlers'[h].executor = executors'[handlers'[h].chat]

C3_OneSession ==
  (config.platform = "discord" /\ config.memory_reset_minutes = 0) =>
    /\ \A h \in Uids : Invoking(h) => handlers[h].executor = executors[handlers[h].chat]
    /\ nSessions = Cardinality({c \in Chats : executors[c] # 0})

C3_OneSessionPerIdentity ==
  [](C3_OneSession) /\ [][C3_CreatedOnMiss /\ C3_StartsOnRegistered]_vars

C3_Witness ==
  \E h1, h2 \in Uids :
    /\ h1 # h2
    /\ config.platform = "discord"
    /\ handlers[h1].chat = handlers[h2].chat
    /\ handlers[h1].pc = "running" /\ handlers[h2].pc = "running"
    /\ handlers[h1].executor = handlers[h2].executor
    /\ nSessions = 1

(* C4: at no time are two agent invocations in progress on the same        *)
(* session.                                                                *)
C4_InvocationsSerialized ==
  \A h1, h2 \in Uids :
    (h1 # h2 /\ Invoking(h1) /\ Invoking(h2)) =>
      handlers[h1].executor # handlers[h2].executor

MinTools == IF config.min_tools_used > 0 THEN config.min_tools_used ELSE 0
(* The step in which an attempt of h is rejected and the next one starts.  *)
Retries(h) ==
  /\ Invoking(h)
  /\ handlers'[h].pc = "running"
  /\ handlers'[h].attempt # handlers[h].attempt
(* The step sends this reply for update h.                                 *)
Sends(h, kind) == outbox'.uid = h /\ outbox'.kind = kind

(* C5: with min_tools > 0, the turn fails with the minimum-tool-usage      *)
(* error only at the end of attempt number max_attempts, every rejected    *)
(* attempt before that one is followed by exactly the next attempt, and    *)
(* the failed turn sends no answer.                                        *)
C5_Step ==
  \A h \in Uids :
    /\ (Sends(h, "error") /\ outbox'.cause = "min_tools") =>
         /\ MinTools > 0
         /\ Invoking(h)
         /\ handlers[h].attempt = max_attempts - 1
         /\ handlers'[h] = NoHandler
    /\ Retries(h) =>
         /\ handlers'[h].attempt = handlers[h].attempt + 1
         /\ handlers'[h].attempt < max_attempts
    /\ (/\ handlers[h].pc = "summarizing"
        /\ handlers[h].attempt = max_attempts - 1
        /\ handlers[h].result.steps < MinTools) =>
         /\ Sends(h, "error")
         /\ handlers'[h] = NoHandler

C5_FailsAfterMaxAttempts == [][C5_Step]_vars

C5_Witness ==
  /\ outbox.kind = "error"
  /\ outbox.cause = "min_tools"
  /\ config.min_tools_used > 0

(* C6: an attempt is accepted exactly when min_tools is 0 or its tool-step *)
(* count is at least min_tools; after the accepted attempt the agent is    *)
(* not invoked again; with min_tools = 0 only attempt 0 is made; and the   *)
(* answer carries the output and the tool steps of the accepted attempt.   *)
C6_Step ==
  \A h \in Uids :
    /\ (Invoking(h) /\ handlers'[h].pc = "sending") =>
         /\ MinTools = 0 \/ handlers'[h].result.steps >= MinTools
         /\ handlers[h].pc = "summarizing" => handlers'[h].result = handlers[h].result
         /\ handlers'[h].attempt = handlers[h].attempt
    /\ Retries(h) =>
         /\ MinTools > 0
         /\ handlers'[h].result.steps < MinTools
    /\ handlers[h].pc = "sending" =>
         /\ handlers'[h].pc \in {"sending", "idle"}
         /\ handlers'[h].pc = "sending" => handlers'[h] = handlers[h]
    /\ Sends(h, "answer") =>
         /\ handlers[h].pc = "sending"
         /\ outbox'.output = handlers[h].result.output
         /\ outbox'.tools = handlers[h].result.steps

C6_State ==
  \A h \in Uids : (MinTools = 0 /\ handlers[h].pc # "idle") => handlers[h].attempt = 0

C6_FirstSufficientAttemptAccepted == [](C6_State) /\ [][C6_Step]_vars

C6_Witness ==
  /\ outbox.kind = "answer"
  /\ config.min_tools_used > 0
  /\ outbox.tools >= config.min_tools_used
  /\ outbox.output

(* C7: an attempt that is rejected for too few tool steps leaves nothing   *)
(* in the session: while a later attempt of a turn runs, neither the       *)
(* window nor the running summary holds a message of that turn.            *)
C7_RejectedAttemptLeavesNoTrace ==
  \A h \in Uids :
    (handlers[h].pc = "running" /\ handlers[h].attempt > 0) =>
      LET session == sessions[handlers[h].executor]
      IN \A m \in SeqToSet(session.messages) \cup session.summary : m.u # h

(* The session object registered for chat c by this step is a new one,     *)
(* with nothing in its window and no running summary, and h runs on it.    *)
RunsOnFresh(h, c) ==
  /\ nSessions' = nSessions + 1
  /\ executors'[c] = nSessions'
  /\ executors'[c] # executors[c]
  /\ sessions'[executors'[c]].messages = <<>>
  /\ sessions'[executors'[c]].summary = {}
  /\ handlers'[h].executor = executors'[c]
  /\ handlers'[h].pc = "running"
  /\ handlers'[h].attempt = 0
(* More than memory_reset_minutes have passed since the last reply to c.   *)
Stale(c) ==
  /\ last_bot_reply_at[c] # 0
  /\ now - last_bot_reply_at[c] > config.memory_reset_minutes
(* The long-term summarizer is called from the transcript of c's session,  *)
(* which stays registered while the call is in progress.                   *)
FinalizationStarts(h, c) ==
  /\ handlers'[h].pc = "finalizing"
  /\ handlers'[h].conversation = sessions[executors[c]].messages
  /\ handlers'[h].previous = longterm[c]
  /\ UNCHANGED <<executors, last_bot_reply_at, longterm, nSessions>>
(* Finalization has nothing to summarize: long-term memory is off, or the  *)
(* chat has no session, or its transcript is empty.                        *)
NothingToFinalize(c) ==
  \/ ~config.long_term_memory_enabled
  \/ executors[c] = 0
  \/ sessions[executors[c]].messages = <<>>
(* The long-term record after a finalization that did not raise: the old   *)
(* record, or the summarizer's text for the old record and the transcript. *)
Finalized(h, c) ==
  /\ longterm'[c] \in {longterm[c],
                       handlers[h].previous \cup SeqToSet(handlers[h].conversation)}
  /\ \A d \in Chats \ {c} : longterm'[d] = longterm[d]
(* The long-term summarizer raised: nothing is evicted or written. *)
FinalizationRaised(h) ==
  /\ handlers'[h] = NoHandler
  /\ UNCHANGED <<executors, last_bot_reply_at, longterm, sessions, nSessions>>

(* C8: with memory_reset_minutes = R > 0, a message that arrives more than *)
(* R minutes after the chat's last reply first has the old session's       *)
(* transcript finalized while that session is still registered, and then,  *)
(* unless the summarizer raises, the session and the time of last reply    *)
(* are evicted and a new session is created on which this message runs; a  *)
(* message that arrives R minutes or less after the last reply runs on the *)
(* registered session, with no finalization and no eviction.               *)
C8_Step ==
  \A h \in Uids :
    LET c == lastUpdate'.chat
        k == handlers[h].chat
    IN /\ (/\ config.memory_reset_minutes > 0
           /\ Arrives(h)
           /\ lastUpdate'.op = "message"
           /\ last_bot_reply_at[c] # 0) =>
            IF Stale(c)
              THEN \/ /\ ~NothingToFinalize(c)
                      /\ FinalizationStarts(h, c)
                   \/ /\ NothingToFinalize(c)
                      /\ longterm' = longterm
                      /\ last_bot_reply_at'[c] = 0
                      /\ RunsOnFresh(h, c)
              ELSE /\ UNCHANGED <<executors, last_bot_reply_at, longterm, nSessions>>
                   /\ executors[c] # 0
                   /\ handlers'[h].executor = executors[c]
                   /\ handlers'[h].pc = "running"
                   /\ sessions'[executors[c]] = sessions[executors[c]]
       /\ (/\ handlers[h].pc = "finalizing"
           /\ handlers[h].op = "message"
           /\ handlers'[h] # handlers[h]) =>
            \/ /\ Sends(h, "error")
               /\ FinalizationRaised(h)
            \/ /\ Finalized(h, k)
               /\ last_bot_reply_at'[k] = 0
               /\ RunsOnFresh(h, k)

C9_Step ==
  \A h \in Uids :
    LET c == lastUpdate'.chat
        k == handlers[h].chat
    IN /\ (lastUpdate'.op = "reset" /\ ~_chat_allowed(config.telegram, lastUpdate')) =>
            /\ UNCHANGED <<executors, last_bot_reply_at, sessions, nSessions,
                           longterm, handlers, nUpdates>>
            /\ outbox' = NoReply
       /\ (lastUpdate'.op = "reset" /\ _chat_allowed(config.telegram, lastUpdate')
           /\ h = nUpdates + 1) =>
            /\ Arrives(h)
            /\ \/ /\ ~NothingToFinalize(c)
                  /\ FinalizationStarts(h, c)
                  /\ outbox' = NoReply
               \/ /\ NothingToFinalize(c)
                  /\ longterm' = longterm
                  /\ executors'[c] = 0
                  /\ last_bot_reply_at'[c] = 0
                  /\ Sends(h, "reset")
                  /\ handlers'[h] = NoHandler
       /\ (/\ handlers[h].pc = "finalizing"
           /\ handlers[h].op = "reset"
           /\ handlers'[h] # handlers[h]) =>
            \/ /\ outbox' = NoReply
               /\ FinalizationRaised(h)
            \/ /\ Finalized(h, k)
               /\ executors'[k] = 0
               /\ last_bot_reply_at'[k] = 0
               /\ Sends(h, "reset")
               /\ handlers'[h] = NoHandler
       /\ (/\ config.platform = "telegram"
           /\ Arrives(h)
           /\ lastUpdate'.op = "message"
           /\ executors[c] = 0) =>
            RunsOnFresh(h, c)

C9_State ==
  config.platform = "telegram" =>
    \A c \in Chats : executors[c] = 0 => last_bot_reply_at[c] = 0

C10_Step ==
  \A h \in Uids :
    (/\ Arrives(h)
     /\ lastUpdate'.op = "message"
     /\ executors[lastUpdate'.chat] = 0) =>
      /\ executors'[lastUpdate'.chat] # 0
      /\ handlers'[h].executor = executors'[lastUpdate'.chat]
      /\ handlers'[h].pc = "running"

C10_FirstMessageRegistersSession == [][C10_Step]_vars

(* A session that is registered before and after the step is the same      *)
(* object with the same window and the same running summary.               *)
RegistryKept ==
  /\ UNCHANGED <<executors, last_bot_reply_at, longterm, nSessions>>
  /\ \A c \in Chats : executors[c] # 0 => sessions'[executors[c]] = sessions[executors[c]]

(* C11: when the agent invocation or the sending of the answer raises, the *)
(* apology is sent and the step evicts nothing and clears nothing: the     *)
(* registry, the windows and summaries of the registered sessions and the  *)
(* times of last reply are unchanged; and a message for a chat that has a  *)
(* session and is not idle runs on that session.                           *)
C11_Step ==
  \A h \in Uids :
    /\ (/\ handlers[h].pc \in {"running", "summarizing", "sending"}
        /\ handlers'[h].pc = "idle"
        /\ ~Sends(h, "answer")) =>
         /\ Sends(h, "error")
         /\ outbox'.text = <<Apology>>
         /\ outbox'.cause \in {"upstream", "send", "min_tools"}
         /\ RegistryKept
    /\ Sends(h, "error") => RegistryKept
    /\ (/\ Arrives(h)
        /\ lastUpdate'.op = "message"
        /\ executors[lastUpdate'.chat] # 0
        /\ ~(config.memory_reset_minutes > 0 /\ Stale(lastUpdate'.chat))) =>
         /\ handlers'[h].executor = executors[lastUpdate'.chat]
         /\ executors' = executors

C11_ErrorKeepsSession == [][C11_Step]_vars

C11_Witness ==
  \E c \in Chats :
    /\ outbox.kind = "error"
    /\ outbox.cause \in {"upstream", "send"}
    /\ executors[c] # 0
    /\ sessions[executors[c]].messages # <<>>
    /\ nUpdates = 2

(* C12: when the retry loop gives up, the only message sent for the turn   *)
(* is the fixed apology: it carries no agent output and no tool figures,   *)
(* its text holds neither the exception's wording nor min_tools_used, and  *)
(* no answer was or will be sent for that turn.                            *)
C12_Step ==
  \A h \in Uids :
    /\ (outbox'.uid = h /\ outbox'.cause = "min_tools") =>
         /\ outbox'.kind = "error"
         /\ outbox'.text = <<Apology>>
         /\ \A i \in 1..Len(outbox'.text) :
              outbox'.text[i] \notin SeqToSet(MinimumToolUsageNotMet(config.min_tools_used))
         /\ ~outbox'.output
         /\ outbox'.tools = 0
         /\ handlers[h].pc \in {"running", "summarizing"}
         /\ handlers[h].attempt > 0
         /\ handlers'[h] = NoHandler
    /\ Sends(h, "answer") => handlers[h].pc = "sending"
    /\ (h <= nUpdates /\ handlers[h].pc = "idle") => handlers'[h].pc = "idle"

C12_OnlyApologyOnMinToolsFailure == [][C12_Step]_vars

C12_Witness ==
  /\ outbox.kind = "error"
  /\ outbox.cause = "min_tools"
  /\ outbox.text = <<Apology>>
  /\ \E id \in SessionIds : \E i \in 1..Len(sessions[id].messages) :
       sessions[id].messages[i].role = "assistant"

(* The access filter of the platform rejects the update. *)
Denied(u) ==
  IF config.platform = "telegram"
    THEN ~_message_allowed(config.telegram, u)
    ELSE ~discord_allowed(config.discord, u)

(* C13: a message the access filter denies is dropped silently: the step   *)
(* sends nothing, starts no handler and creates no session, and leaves the *)
(* registry, the sessions, the times of last reply and the long-term       *)
(* records unchanged.                                                      *)
C13_Step ==
  (lastUpdate'.op = "message" /\ Denied(lastUpdate')) =>
    /\ outbox' = NoReply
    /\ UNCHANGED <<executors, last_bot_reply_at, sessions, nSessions,
                   longterm, handlers, nUpdates>>

C13_DeniedDroppedSilently == [][C13_Step]_vars

C13_Witness ==
  /\ lastUpdate.op = "message"
  /\ Denied(lastUpdate)
  /\ outbox = NoReply
  /\ \E c \in Chats : executors[c] # 0 /\ last_bot_reply_at[c] # 0

(* The update received in this step goes on to the agent or to the reset.  *)
Admitted == nUpdates' = nUpdates + 1
(* A configured regex matches a string: one that does not compile matches  *)
(* nothing.                                                                *)
RegexMatches(p, text) == p.valid /\ text \in p.matches

(* C14: in a private chat with direct messages enabled, a sender is let in *)
(* by everyone-allowed when the three configured allow-lists are empty,    *)
(* and otherwise exactly when its id is listed, or its lower-cased         *)
(* username is listed, or its username matches a configured regex.         *)
C14_Allowed(tg, u) ==
  IF /\ tg.dm_allowlist_ids = {}
     /\ tg.dm_allowlist_usernames = {}
     /\ tg.dm_allowlist_usernames_regex = {}
    THEN TRUE
    ELSE \/ u.user \in tg.dm_allowlist_ids
         \/ /\ UsernameOf(u.user) # ""
            /\ Lower(UsernameOf(u.user)) \in {Lower(n) : n \in tg.dm_allowlist_usernames}
         \/ /\ UsernameOf(u.user) # ""
            /\ \E p \in tg.dm_allowlist_usernames_regex :
                 RegexMatches(p, UsernameOf(u.user))

C14_Step ==
  (/\ lastUpdate'.op = "reset"
   /\ ChatTypeOf(lastUpdate'.chat) = "private"
   /\ config.telegram.allow_dms) =>
    (Admitted <=> C14_Allowed(config.telegram, lastUpdate'))

C14_DirectMessageAuthorization == [][C14_Step]_vars

(* C15: with groups enabled, a group is let in by everyone-allowed when    *)
(* the configured id allow-list and title regex list are empty, and        *)
(* otherwise exactly when its chat id is listed or its title matches a     *)
(* configured title regex.                                                 *)
C15_Allowed(tg, u) ==
  IF tg.group_allowlist_ids = {} /\ tg.group_allowlist_title_regex = {}
    THEN TRUE
    ELSE \/ u.chat \in tg.group_allowlist_ids
         \/ \E p \in tg.group_allowlist_title_regex :
              RegexMatches(p, TitleOf(u.chat))

C15_Step ==
  (/\ lastUpdate'.op = "reset"
   /\ ChatTypeOf(lastUpdate'.chat) = "group"
   /\ config.telegram.allow_groups) =>
    (Admitted <=> C15_Allowed(config.telegram, lastUpdate'))

C15_GroupAuthorization == [][C15_Step]_vars

(* The content gate of the chat's conversation kind, as configured. *)
GateOf(tg, u) ==
  IF ChatTypeOf(u.chat) = "private" THEN tg.dm_require_regex ELSE tg.group_require_regex
(* A text matches a regex set: an empty set matches everything. *)
GateMatches(patterns, text) ==
  patterns = {} \/ \E p \in patterns : RegexMatches(p, text)

(* C16: a message goes on to the agent exactly when the chat is authorized *)
(* (the decision taken for the reset command) and its text matches the     *)
(* configured content gate of its conversation kind; a reset command goes  *)
(* on exactly when the chat is authorized, whatever the content gate.      *)
C16_Step ==
  /\ lastUpdate'.op = "message" =>
       (Admitted <=> /\ _chat_allowed(config.telegram, lastUpdate')
                     /\ GateMatches(GateOf(config.telegram, lastUpdate'), lastUpdate'.text))
  /\ lastUpdate'.op = "reset" =>
       (Admitted <=> _chat_allowed(config.telegram, lastUpdate'))

C16_ProcessedIffAuthorizedAndGated == [][C16_Step]_vars

(* C17: estimate_cost returns None exactly when the model is not in the    *)
(* pricing table; otherwise the returned cost times 1,000,000 equals       *)
(* max(prompt - cached, 0) * input + cached * cached_input + completion *  *)
(* output, so the billable prompt count is never negative.                 *)
C17_CostFormula ==
  returned.fn = "estimate_cost" =>
    /\ returned.none <=> args.model \notin DOMAIN args.pricing
    /\ ~returned.none =>
         LET rates == args.pricing[args.model]
             billable == IF args.prompt_tokens > args.cached_prompt_tokens
                           THEN args.prompt_tokens - args.cached_prompt_tokens
                           ELSE 0
         IN /\ returned.num * 1000000 =
                 (billable * rates.input
                    + args.cached_prompt_tokens * rates.cached_input
                    + args.completion_tokens * rates.output) * returned.den
            /\ returned.den > 0
            /\ returned.num >= args.cached_prompt_tokens * rates.cached_input
                                 + args.completion_tokens * rates.output

C17_Witness ==
  /\ returned.fn = "estimate_cost"
  /\ ~returned.none
  /\ args.cached_prompt_tokens > args.prompt_tokens
  /\ args.pricing[args.model].input > 0
  /\ returned.num > 0

Chunks == IF returned.fn = "_split_for_telegram" THEN returned.chunks ELSE <<>>
FenceLines(lines) == {i \in 1..Len(lines) : lines[i].fence}
BluntSliced == \E k \in 1..Len(Chunks) : \E i \in 1..Len(Chunks[k]) : Chunks[k][i].part # 0

(* C18: every fragment the Telegram splitter returns has at most limit     *)
(* characters, injected fence lines and single-line slices included.       *)
C18_FragmentsWithinLimit ==
  \A k \in 1..Len(Chunks) : JoinLen(Chunks[k]) <= args.limit

(* C19: for a text with an even number of fence lines, every fragment the  *)
(* splitter returns holds an even number of fence lines, the injected ones *)
(* included.                                                               *)
C19_FragmentsBalanced ==
  (/\ returned.fn = "_split_for_telegram"
   /\ Cardinality(FenceLines(LinesOf(args.text))) % 2 = 0
   /\ ~BluntSliced) =>
    \A k \in 1..Len(Chunks) : Cardinality(FenceLines(Chunks[k])) % 2 = 0

RECURSIVE Concat(_)
Concat(seqs) == IF seqs = <<>> THEN <<>> ELSE Head(seqs) \o Concat(Tail(seqs))
WithoutInjected(lines) == SelectSeq(lines, LAMBDA l : l.id # 0)

(* C20: when no line is sliced, the lines of the fragments in order, the   *)
(* injected fence lines removed, are the lines of the text in order.       *)
C20_LinesPreserved ==
  (returned.fn = "_split_for_telegram" /\ ~BluntSliced) =>
    WithoutInjected(Concat(Chunks)) = LinesOf(args.text)

C20_Witness ==
  /\ returned.fn = "_split_for_telegram"
  /\ ~BluntSliced
  /\ Len(Chunks) >= 3
  /\ \E k \in 1..Len(Chunks) : \E i \in 1..Len(Chunks[k]) : Chunks[k][i].id = 0
  /\ WithoutInjected(Concat(Chunks)) = LinesOf(args.text)


Saved == returned.fn = "save_long_term_memory" /\ returned.pc = "closed"

(* C21 as stated: with max_chars = m > 0, a content longer than m is saved *)
(* as exactly its first m characters and a content of at most m characters *)
(* is saved unchanged.                                                     *)
C21_SavesFirstMChars ==
  (Saved /\ args.max_chars > 0) =>
    returned.file = IF Len(args.content) > args.max_chars
                      THEN SubSeq(args.content, 1, args.max_chars)
                      ELSE args.content

(* C21 as amended: with max_chars = m > 0, a content longer than m is      *)
(* saved as its first m characters without their trailing whitespace, a    *)
(* content of at most m characters is saved unchanged, the file replaces   *)
(* the previous record, and it never holds more than m characters.         *)
C21_SavesFirstMCharsStripped ==
  (Saved /\ args.max_chars > 0) =>
    /\ Len(args.content) <= args.max_chars => returned.file = args.content
    /\ Len(args.content) > args.max_chars =>
         \E n \in 0..args.max_chars :
           /\ returned.file = SubSeq(args.content, 1, n)
           /\ n = 0 \/ args.content[n] # " "
           /\ \A i \in (n + 1)..args.max_chars : args.content[i] = " "
    /\ Len(returned.file) <= args.max_chars

C21_Witness ==
  /\ Saved
  /\ args.max_chars > 0
  /\ Len(args.content) > args.max_chars
  /\ args.previous # <<>>
  /\ returned.file # <<>>
  /\ Len(returned.file) < args.max_chars

(* C23: a save that is interrupted leaves in the file either the complete  *)
(* previous record or the complete new one.                                *)
C23_AtomicWrite ==
  (returned.fn = "save_long_term_memory" /\ returned.pc = "crashed") =>
    \/ returned.file = args.previous
    \/ returned.file = truncate(args.content, args.max_chars)


(* The step runs _finalize_long_term_memory for the chat of the update it  *)
(* receives: an admitted reset command, or a message that finds the chat   *)
(* idle.                                                                   *)
Finalizes(h) ==
  /\ Arrives(h)
  /\ \/ lastUpdate'.op = "reset"
     \/ config.memory_reset_minutes > 0 /\ Stale(lastUpdate'.chat)

(* C22: finalizing a chat whose session has an empty transcript (or that   *)
(* has no session) calls no summarizer and leaves every long-term record   *)
(* as it was, each time it is done.                                        *)
C22_Step ==
  \A h \in Uids :
    (/\ Finalizes(h)
     /\ \/ executors[lastUpdate'.chat] = 0
        \/ sessions[executors[lastUpdate'.chat]].messages = <<>>) =>
      /\ handlers'[h].pc # "finalizing"
      /\ longterm' = longterm

C22_EmptyFinalizationIsNoOp == [][C22_Step]_vars

C22_Witness ==
  /\ lastUpdate.op = "reset"
  /\ outbox.kind = "reset"
  /\ config.long_term_memory_enabled
  /\ nSessions = 1
  /\ \A c \in Chats : executors[c] = 0


(* C24: the typing task of a Telegram message handler runs only while the  *)
(* handler does: the step in which the handler ends, with the answer, the  *)
(* apology after an agent failure or the apology after a failed send, also *)
(* ends its typing task.                                                   *)
C24_State ==
  \A h \in Uids :
    /\ h \in typing => handlers[h].pc # "idle"
    /\ (config.platform = "telegram" /\ handlers[h].op = "message") => h \in typing

C24_Step ==
  \A h \in Uids :
    (h \in typing /\ handlers'[h].pc = "idle") =>
      /\ h \notin typing'
      /\ outbox'.kind \in {"answer", "error"}
      /\ outbox'.uid = h

C24_TypingTaskCancelled == [](C24_State) /\ [][C24_Step]_vars

C24_Witness ==
  /\ config.platform = "telegram"
  /\ outbox.kind = "error"
  /\ outbox.cause = "send"
  /\ typing = {}
  /\ nUpdates = 2


(* C25: with a summary budget m > 0, the running summary a compaction      *)
(* stores has at most m characters and, when the summarizer returned more  *)
(* than m characters, is the first m characters of what it returned, for   *)
(* either kind of session.                                                 *)
C25_SummaryWithinBudget ==
  (returned.fn = "compaction" /\ args.max_chars > 0) =>
    /\ Len(returned.summary) <= args.max_chars
    /\ Len(args.content) > args.max_chars =>
         returned.summary = Prefix(args.content, args.max_chars)


(* C26: a session's compaction target is memory_reset_to_messages when     *)
(* that lies between 1 and memory_max_messages, and memory_max_messages    *)
(* otherwise (unset, below 1 or above the maximum); a compaction reduces   *)
(* the window to that many messages.                                       *)
C26_Target ==
  LET max_messages == IF config.memory_max_messages < 1 THEN 1
                      ELSE config.memory_max_messages
      r == config.memory_reset_to_messages
  IN IF 1 <= r /\ r <= max_messages THEN r ELSE max_messages

C26_State == \A id \in Live : sessions[id].target = C26_Target

C26_Step ==
  \A h \in Uids :
    Compacts(h) => Len(sessions'[handlers[h].executor].messages) = C26_Target

C26_ResetTargetHonoured == [](C26_State) /\ [][C26_Step]_vars


(* C27: short-term compaction calls the summarizer only when it removed at *)
(* least one message from the window; an invocation whose prune removes    *)
(* nothing makes no summarizer call and leaves the running summary as it   *)
(* was, and a running summary changes only when such a call returns.       *)
C27_Step ==
  /\ \A h \in Uids :
       LET id == handlers[h].executor
       IN /\ Compacts(h) =>
               /\ handlers'[h].pruned # <<>>
               /\ \E n \in 1..2 :
                    sessions[id].messages \o appended(sessions[id].kind, h, n = 2)
                      = handlers'[h].pruned \o sessions'[id].messages
          /\ (/\ handlers[h].pc = "running"
              /\ handlers'[h] # handlers[h]
              /\ ~Compacts(h)
              /\ sessions'[id].kind # "none") =>
               sessions'[id].summary = sessions[id].summary
  /\ \A id \in SessionIds :
       (/\ sessions[id].kind # "none"
        /\ sessions'[id].kind # "none"
        /\ sessions'[id].summary # sessions[id].summary) =>
         \E h \in Uids : /\ handlers[h].pc = "summarizing"
                         /\ handlers[h].executor = id
                         /\ handlers[h].pruned # <<>>

C27_SummarizerOnlyOnRemoval == [][C27_Step]_vars

C27_Witness ==
  \E h \in Uids, id \in Live :
    /\ handlers[h].pc = "summarizing"
    /\ handlers[h].pruned # <<>>
    /\ id # handlers[h].executor
    /\ Len(sessions[id].messages) = sessions[id].trigger
    /\ sessions[id].summary = {}


(* C28: the window of a session is a contiguous suffix, in order, of the   *)
(* messages appended to it since it was created: a session starts empty,   *)
(* and every step that changes a window appends one invocation's messages  *)
(* at its end and removes a prefix of the result.  The prefix is removed   *)
(* only by a compaction, as one batch, and the summarizer is passed        *)
(* exactly that batch, in order, with the running summary as it was.       *)
C28_Step ==
  \A id \in SessionIds :
    /\ (sessions[id].kind = "none" /\ sessions'[id].kind # "none") =>
         sessions'[id].messages = <<>>
    /\ (sessions[id].kind # "none" /\ sessions'[id].kind # "none") =>
         \/ sessions'[id].messages = sessions[id].messages
         \/ \E h \in Uids, output \in BOOLEAN :
              LET grown == sessions[id].messages \o appended(sessions[id].kind, h, output)
              IN /\ handlers[h].pc = "running"
                 /\ handlers[h].executor = id
                 /\ \E n \in 0..Len(grown) :
                      /\ sessions'[id].messages = SubSeq(grown, n + 1, Len(grown))
                      /\ IF n = 0
                           THEN ~Compacts(h)
                           ELSE /\ Compacts(h)
                                /\ handlers'[h].pruned = SubSeq(grown, 1, n)
                                /\ handlers'[h].summary_arg = sessions[id].summary

C28_WindowIsSuffix == [][C28_Step]_vars

C28_Witness ==
  \E h \in Uids :
    /\ handlers[h].pc = "summarizing"
    /\ handlers[h].pruned # <<>>
    /\ handlers[h].summary_arg # {}
    /\ sessions[handlers[h].executor].messages # <<>>


(* C29: the transcript handed to the long-term summarizer when a session   *)
(* is finalized covers the whole conversation of the session: the messages *)
(* of its window and the messages compaction has removed from it (those    *)
(* the running summary was produced from).                                 *)
C29_Step ==
  \A h \in Uids :
    (handlers[h].pc # "finalizing" /\ handlers'[h].pc = "finalizing") =>
      LET session == sessions[executors[handlers'[h].chat]]
      IN (SeqToSet(session.messages) \cup session.summary)
           \subseteq SeqToSet(handlers'[h].conversation)

C29_FullConversationSummarized == [][C29_Step]_vars


(* What the bot holds for chat c: its registry entry, the session behind   *)
(* it (window, summary, limits), the time of its last reply and its        *)
(* long-term record.                                                       *)
ChatState(ex, ss, last, lt, c) ==
  [executor |-> ex[c],
   session |-> IF ex[c] = 0 THEN NoSession ELSE ss[ex[c]],
   last |-> last[c],
   record |-> lt[c]]

(* The chat handler h works for in this step *)
ChatOf(h) == IF handlers[h].chat # 0 THEN handlers[h].chat ELSE handlers'[h].chat
(* The chats this step works for: the chat of the update it receives or of *)
(* the handler that takes the step (none when only the clock advances).    *)
StepChats ==
  ({lastUpdate'.chat} \cup {ChatOf(h) : h \in {g \in Uids : handlers'[g] # handlers[g]}})
    \ {0}

(* C30: sessions are isolated per chat.  No two chats share a session or   *)
(* the file of a long-term record, and a step of a handler for chat A (a   *)
(* message, an idle reset, an explicit reset) changes nothing of what the  *)
(* bot holds for any other chat B: registry entry, window, running         *)
(* summary, time of last reply, long-term record.                          *)
C30_State ==
  \A a \in Chats, b \in Chats :
    a # b =>
      /\ executors[a] # 0 => executors[a] # executors[b]
      /\ get_long_term_memory_path(a) # get_long_term_memory_path(b)

C30_Step ==
  /\ Cardinality(StepChats) <= 1
  /\ \A b \in Chats \ StepChats :
       ChatState(executors', sessions', last_bot_reply_at', longterm', b)
         = ChatState(executors, sessions, last_bot_reply_at, longterm, b)

C30_SessionsIsolated == [](C30_State) /\ [][C30_Step]_vars

C30_Witness ==
  \E a \in Chats, b \in Chats :
    /\ a # b
    /\ executors[b] # 0
    /\ sessions[executors[b]].messages # <<>>
    /\ last_bot_reply_at[b] # 0
    /\ lastUpdate.op = "reset"
    /\ lastUpdate.chat = a
    /\ outbox.kind = "reset"


(* The bot takes a message for a chat other than the one handler h works   *)
(* for, and starts handling it.                                            *)
AcceptsForOtherChat(h) ==
  /\ _handle_message \/ on_message
  /\ nUpdates' = nUpdates + 1
  /\ lastUpdate'.chat # handlers[h].chat
  /\ handlers'[nUpdates'].pc = "running"

(* C31: the agent invocation runs off the event loop: while the agent call *)
(* of a handler for chat A is in progress (and the bounds on updates and   *)
(* on handlers in progress leave room), a message for another chat B can   *)
(* be accepted and its handling started, before A's call returns.          *)
C31_OtherChatsNotStalled ==
  \A h \in Uids :
    (/\ handlers[h].pc = "running"
     /\ nUpdates < MaxUpdates
     /\ Cardinality(Active) < MaxActive) =>
      ENABLED AcceptsForOtherChat(h)


(* C32: token accounting is per attempt: the token count with which a turn *)
(* goes on to the cost estimate and the answer is the count of the         *)
(* accepted attempt alone, not a sum that includes rejected attempts.      *)
C32_State ==
  \A h \in Uids :
    handlers[h].pc = "sending" => handlers[h].cb = handlers[h].result.usage

C32_Step ==
  \A h \in Uids :
    (outbox'.kind = "answer" /\ outbox'.uid = h) =>
      outbox'.tokens = handlers[h].result.usage

C32_AcceptedAttemptAccounting == [](C32_State) /\ [][C32_Step]_vars

C32_Witness ==
  \E h \in Uids :
    /\ handlers[h].pc = "sending"
    /\ handlers[h].attempt > 0
    /\ handlers[h].cb > 0


(* C33: attempt 0 of a turn sends the user's text as it is; every later    *)
(* attempt sends the user's text followed by one instruction that demands  *)
(* at least min_tools tool uses: the instruction is appended to the        *)
(* original text each time and does not pile up from attempt to attempt.   *)
C33_State ==
  \A h \in Uids :
    handlers[h].pc = "running" =>
      handlers[h].input =
        IF handlers[h].attempt = 0
          THEN <<handlers[h].text>>
          ELSE <<handlers[h].text, "IMPORTANT: Use at least", ToString(MinTools),
                 "tools before your final answer.">>

C33_Step ==
  \A h \in Uids :
    (Arrives(h) /\ handlers'[h].pc = "running") =>
      handlers'[h].input = <<lastUpdate'.text>>

C33_NudgeOnRetriesOnly == [](C33_State) /\ [][C33_Step]_vars

C33_Witness ==
  \E h \in Uids :
    /\ handlers[h].pc = "running"
    /\ handlers[h].attempt = 2
    /\ Len(handlers[h].input) = 4
    /\ handlers[h].input[1] = "hello"


(* The step in which session id is created *)
Created(id) == sessions[id].kind = "none" /\ sessions'[id].kind # "none"

(* C34: the system prompt of a new session is the base prompt followed by  *)
(* the chat's long-term record as it is when the session is created, if    *)
(* long-term memory is enabled and the record is not empty, and the base   *)
(* prompt alone otherwise; the session that replaces an idle one is        *)
(* created after the finalization has saved, so its prompt carries the     *)
(* record that finalization wrote; and a prompt does not change afterwards.*)
C34_Step ==
  \A id \in SessionIds :
    /\ Created(id) =>
         sessions'[id].prompt =
           IF config.long_term_memory_enabled
             THEN longterm'[sessions'[id].chat] ELSE {}
    /\ (sessions[id].kind # "none" /\ sessions'[id].kind # "none") =>
         sessions'[id].prompt = sessions[id].prompt

C34_PromptCarriesRecord == [][C34_Step]_vars

C34_Witness ==
  \E id \in Live :
    /\ sessions[id].prompt # {}
    /\ sessions[id].prompt = longterm[sessions[id].chat]
    /\ \E h \in Uids : handlers[h].pc = "running" /\ handlers[h].executor = id
    /\ config.memory_reset_minutes > 0
    /\ now > 1


(* C35: a regex that does not compile is skipped without widening access:  *)
(* when the configuration lists at least one allow-list entry for direct   *)
(* messages (ids, usernames or username regexes), a sender that matches    *)
(* none of the configured entries is denied, and likewise a group when at  *)
(* least one group id or title regex is configured, also when every        *)
(* configured regex failed to compile.                                     *)
C35_SenderMatchesNone(tg, u) ==
  /\ u.user \notin tg.dm_allowlist_ids
  /\ Lower(UsernameOf(u.user)) \notin {Lower(n) : n \in tg.dm_allowlist_usernames}
  /\ \A p \in tg.dm_allowlist_usernames_regex : ~RegexMatches(p, UsernameOf(u.user))

C35_GroupMatchesNone(tg, u) ==
  /\ u.chat \notin tg.group_allowlist_ids
  /\ \A p \in tg.group_allowlist_title_regex : ~RegexMatches(p, TitleOf(u.chat))

C35_Step ==
  LET tg == config.telegram
      u == lastUpdate'
  IN /\ (/\ u.op # "none"
         /\ ChatTypeOf(u.chat) = "private"
         /\ \/ tg.dm_allowlist_ids # {}
            \/ tg.dm_allowlist_usernames # {}
            \/ tg.dm_allowlist_usernames_regex # {}
         /\ C35_SenderMatchesNone(tg, u)) => ~Admitted
     /\ (/\ u.op # "none"
         /\ ChatTypeOf(u.chat) = "group"
         /\ tg.group_allowlist_ids # {} \/ tg.group_allowlist_title_regex # {}
         /\ C35_GroupMatchesNone(tg, u)) => ~Admitted

C35_SkippedRegexDenies == [][C35_Step]_vars


(* C36: when two messages for the same chat are handled concurrently and   *)
(* both find the session idle, the old session is finalized once (no two   *)
(* handlers are finalizing the same chat), and the replacement session the *)
(* first one creates is not evicted by the second: handlers of one chat    *)
(* that are past the idle check work on one and the same session.          *)
C36_IdleResetOnce ==
  \A h1 \in Uids, h2 \in Uids :
    (h1 # h2 /\ handlers[h1].chat # 0 /\ handlers[h1].chat = handlers[h2].chat) =>
      /\ ~(handlers[h1].pc = "finalizing" /\ handlers[h2].pc = "finalizing")
      /\ (/\ handlers[h1].pc \in {"running", "summarizing", "sending"}
          /\ handlers[h2].pc \in {"running", "summarizing", "sending"}) =>
           handlers[h1].executor = handlers[h2].executor


(* C37: when the long-term summarizer returns empty text, the long-term    *)
(* record is left as it was: a record is changed only by the return of a   *)
(* finalization of that chat, and then to the text produced from the       *)
(* previous record and the transcript, never to an empty record.           *)
C37_Step ==
  \A c \in Chats :
    longterm'[c] # longterm[c] =>
      /\ longterm'[c] # {}
      /\ \E h \in Uids :
           /\ handlers[h].pc = "finalizing"
           /\ handlers[h].chat = c
           /\ longterm'[c] = handlers[h].previous \cup SeqToSet(handlers[h].conversation)

C37_EmptySummaryKeepsRecord == [][C37_Step]_vars

(* An idle reset whose finalization returned empty text: the replacement   *)
(* session is running and the earlier record is still the chat's record.   *)
C37_Witness ==
  \E h \in Uids :
    /\ handlers[h].pc = "running"
    /\ handlers[h].executor = 2
    /\ nSessions = 2
    /\ Cardinality(Live) = 1
    /\ longterm[handlers[h].chat] = EarlierRecord
    /\ sessions[2].prompt = EarlierRecord


(* C38: when the long-term summarizer raises during the finalization of an *)
(* idle reset, the idle session stays registered with its window, summary  *)
(* and time of last reply, no record is written, and the message that      *)
(* found the session idle ends with the apology without having obtained a  *)
(* session or invoked the agent; a later message for that chat finds the   *)
(* session idle again and starts the same finalization.                    *)
C38_Step ==
  \A h \in Uids :
    /\ (/\ handlers[h].pc = "finalizing"
        /\ handlers[h].op = "message"
        /\ handlers'[h].pc = "idle") =>
         /\ outbox'.kind = "error"
         /\ outbox'.uid = h
         /\ outbox'.text = <<Apology>>
         /\ handlers[h].executor = 0
         /\ handlers[h].input = <<>>
         /\ UNCHANGED <<executors, last_bot_reply_at, longterm, sessions, nSessions>>
    /\ (/\ Arrives(h)
        /\ lastUpdate'.op = "message"
        /\ config.memory_reset_minutes > 0
        /\ Stale(lastUpdate'.chat)
        /\ ~NothingToFinalize(lastUpdate'.chat)) =>
         /\ handlers'[h].pc = "finalizing"
         /\ handlers'[h].conversation = sessions[executors[lastUpdate'.chat]].messages
         /\ handlers'[h].previous = longterm[lastUpdate'.chat]

C38_FailedFinalizationRetried == [][C38_Step]_vars

(* The finalization has just raised: the apology is out, the session is    *)
(* still registered and still idle, and a further message can arrive.      *)
C38_Witness ==
  \E c \in Chats :
    /\ outbox.kind = "error"
    /\ outbox.cause = "finalization"
    /\ executors[c] # 0
    /\ config.memory_reset_minutes > 0
    /\ Stale(c)
    /\ ~NothingToFinalize(c)
    /\ Active = {}
    /\ nUpdates < MaxBurst


(* C39: the time of last reply of a chat is written only when every        *)
(* fragment of a reply has been sent, and then it is the time of that      *)
(* moment; the only other change is its removal by a reset.  A turn that   *)
(* ends with the apology, after a failure in the agent or in the sending   *)
(* of a fragment, leaves every time of last reply as it was, so a chat     *)
(* that was idle before the failed turn is idle after it.                  *)
C39_Step ==
  /\ \A c \in Chats :
       last_bot_reply_at'[c] # last_bot_reply_at[c] =>
         \/ last_bot_reply_at'[c] = 0
         \/ /\ last_bot_reply_at'[c] = now
            /\ outbox'.kind = "answer"
            /\ outbox'.sent = outbox'.fragments
            /\ outbox'.fragments >= 1
            /\ handlers[outbox'.uid].pc = "sending"
            /\ handlers[outbox'.uid].chat = c
  /\ outbox'.kind = "error" =>
       /\ last_bot_reply_at' = last_bot_reply_at
       /\ \A c \in Chats : Stale(c) => (Stale(c))'

C40_DiscordFragments ==
  returned.fn = "_split_for_discord" =>
    LET lines == args.text.lines
        chunks == returned.chunks
    IN /\ (\A i \in 1..Len(lines) : lines[i].len <= args.limit) =>
            \A k \in 1..Len(chunks) : TextLen(chunks[k]) <= args.limit
       /\ (\A i \in 1..Len(lines) : lines[i].len <= args.limit) =>
            Concat([k \in 1..Len(chunks) |-> chunks[k].lines]) = lines
       /\ TextLen(args.text) <= args.limit => chunks = <<args.text>>

C40_Witness ==
  /\ returned.fn = "_split_for_discord"
  /\ \A i \in 1..Len(args.text.lines) : args.text.lines[i].len <= args.limit
  /\ Len(returned.chunks) = 3
  /\ \E k \in 1..3 : Len(returned.chunks[k].lines) = 2
  /\ \E k \in 1..3 : TextLen(returned.chunks[k]) = args.limit

====
